---- MODULE Spec2Model ----
(***************************************************************************)
(* A model of the constraint expression language (circuits/plonk-15-wires  *)
(* expr.rs), the evaluation-domain bundle (circuits/marlin domains.rs) and *)
(* the two prover pipelines (dlog/plonk-15-wires and dlog/plonk prover.rs).*)
(* Field elements are the integers modulo the prime P; expressions are the *)
(* tuples <<tag, a, b>>.                                                    *)
(***************************************************************************)
EXTENDS Integers, Sequences, FiniteSets, TLC

VARIABLES
    pool,      \* the leaf expressions the program combines
    expr,      \* the Expr<F> built so far with the overloaded + - * operators
    call,      \* the last library call: its name, its arguments, its result
    pc,        \* position of ProverProof::create
    fq_sponge, \* operations of the Fq-sponge transcript, oldest first
    fr_sponge, \* operations of the Fr-sponge transcript, oldest first
    prover     \* the inputs and locals of ProverProof::create

vars == <<pool, expr, call, pc, fq_sponge, fr_sponge, prover>>

-----------------------------------------------------------------------------
(* The field F: integers modulo P, with a 2^TWO_ADICITY-th root of unity.  *)

P == 257

TWO_ADICITY == 8

TWO_ADIC_ROOT_OF_UNITY == 3

F == 0 .. (P - 1)

FAdd(x, y) == (x + y) % P

FSub(x, y) == (x - y + P) % P

FMul(x, y) == (x * y) % P

RECURSIVE FPow(_, _)
FPow(x, e) ==
    IF e = 0 THEN 1
    ELSE IF e % 2 = 0 THEN FPow(FMul(x, x), e \div 2)
    ELSE FMul(x, FPow(x, e - 1))

\* inverse of a nonzero element
FInv(x) == FPow(x, P - 2)

RECURSIVE Pow2(_)
Pow2(l) == IF l = 0 THEN 1 ELSE 2 * Pow2(l - 1)

\* ark_ff batch_inversion: every nonzero entry is inverted, zero stays zero
batch_inversion(v) == [j \in DOMAIN v |-> IF v[j] = 0 THEN 0 ELSE FInv(v[j])]

\* Radix2EvaluationDomain of the given power-of-two size
group_gen(size) == FPow(TWO_ADIC_ROOT_OF_UNITY, Pow2(TWO_ADICITY) \div size)

evaluate_vanishing_polynomial(size, pt) == FSub(FPow(pt, size), 1)

-----------------------------------------------------------------------------
(* Column, Variable and Expr of expr.rs.                                   *)

Witness(i) == <<"Witness", i>>
Z == <<"Z", 0>>
LookupSorted(i) == <<"LookupSorted", i>>
LookupAggreg == <<"LookupAggreg", 0>>
LookupTable == <<"LookupTable", 0>>
LookupKindIndex(i) == <<"LookupKindIndex", i>>
Index(t) == <<"Index", t>>

Curr == "Curr"
Next_ == "Next"

\* struct Variable { col, row }
Variable(col, row) == <<col, row>>

Constant(x) == <<"Constant", x, 0>>
Alpha(power) == <<"Alpha", power, 0>>
Beta == <<"Beta", 0, 0>>
Gamma == <<"Gamma", 0, 0>>
JointCombiner(power) == <<"JointCombiner", power, 0>>
Cell(v) == <<"Cell", v[1], v[2]>>
ZkPolynomial == <<"ZkPolynomial", 0, 0>>
UnnormalizedLagrangeBasis(i) == <<"UnnormalizedLagrangeBasis", i, 0>>
Mul(x, y) == <<"Mul", x, y>>
Add(x, y) == <<"Add", x, y>>
Sub(x, y) == <<"Sub", x, y>>

IsBinary(e) == e[1] \in {"Mul", "Add", "Sub"}

\* impl Add for Expr without its second match: only a zero on the left is dropped
add_left_identity_only(self, other) ==
    IF self[1] = "Constant" /\ self[2] = 0 THEN other ELSE Add(self, other)

\* impl Add for Expr
add(self, other) ==
    IF self[1] = "Constant" /\ self[2] = 0 THEN other
    ELSE IF other[1] = "Constant" /\ other[2] = 0 THEN self
    ELSE Add(self, other)

\* impl Mul for Expr
mul(self, other) ==
    IF self[1] = "Constant" /\ self[2] = 1 THEN other
    ELSE IF other[1] = "Constant" /\ other[2] = 1 THEN self
    ELSE Mul(self, other)

\* impl Sub for Expr
sub(self, other) == Sub(self, other)

\* impl From<u64> for Expr
from(x) == Constant(x % P)

Max(a, b) == IF a >= b THEN a ELSE b

RECURSIVE degree(_, _)
degree(self, d1_size) ==
    CASE self[1] \in {"Constant", "Alpha", "Beta", "Gamma", "JointCombiner"} -> 0
      [] self[1] = "ZkPolynomial" -> 3
      [] self[1] = "UnnormalizedLagrangeBasis" -> d1_size
      [] self[1] = "Cell" -> d1_size
      [] self[1] = "Mul" -> degree(self[2], d1_size) * degree(self[3], d1_size)
      [] self[1] \in {"Sub", "Add"} ->
            Max(degree(self[2], d1_size), degree(self[3], d1_size))

-----------------------------------------------------------------------------
(* Vectors are functions on 0 .. len-1, as the Rust indices are.            *)

VLen(v) == Cardinality(DOMAIN v)

\* DensePolynomial::from_coefficients_slice: the coefficients without the
\* zeros at the top
RECURSIVE from_coefficients_slice(_)
from_coefficients_slice(coeffs) ==
    IF Len(coeffs) = 0 THEN <<>>
    ELSE IF coeffs[Len(coeffs)] = 0
    THEN from_coefficients_slice(SubSeq(coeffs, 1, Len(coeffs) - 1))
    ELSE coeffs

\* ExtendedDensePolynomial::eval_polynomial: Horner's rule on a coefficient list
RECURSIVE eval_polynomial(_, _)
eval_polynomial(coeffs, x) ==
    IF Len(coeffs) = 0 THEN 0
    ELSE FAdd(FMul(eval_polynomial(Tail(coeffs), x), x), Head(coeffs))

\* the zero-knowledge polynomial: vanishes on the last three rows of H
eval_zk_polynomial(d, pt) ==
    LET w == group_gen(d) IN
    FMul(FMul(FSub(pt, FInv(w)), FSub(pt, FInv(FPow(w, 2)))), FSub(pt, FInv(FPow(w, 3))))

\* prod_{j != 0} (1 - omega^j), the loop of fn l0_1
RECURSIVE l0_1_loop(_, _, _, _)
l0_1_loop(gen, omega_j, res, left) ==
    IF left = 0 THEN res
    ELSE l0_1_loop(gen, FMul(omega_j, gen), FMul(res, FSub(1, omega_j)), left - 1)

l0_1(d) == l0_1_loop(group_gen(d), group_gen(d), 1, d - 1)

\* the evaluations of a polynomial over the domain of the given size
evals_over(coeffs, size) ==
    [j \in 0 .. (size - 1) |-> eval_polynomial(coeffs, FPow(group_gen(size), j))]

GateTypes == {0, 1}

\* the columns an Environment can supply
Columns ==
    {Witness(0), Witness(1), Z, LookupSorted(0), LookupAggreg, LookupTable,
     LookupKindIndex(0)} \cup {Index(t) : t \in GateTypes}

\* the column polynomials of a proof, told apart by seed
ColumnPoly(col, seed) ==
    CASE col[1] = "Witness" -> <<seed + col[2], 2 * seed + 1, col[2] + 3>>
      [] col[1] = "Z" -> <<1, seed + 2, 5>>
      [] col[1] = "LookupSorted" -> <<seed, 3>>
      [] col[1] = "LookupAggreg" -> <<2, seed>>
      [] col[1] = "LookupTable" -> <<seed + 1, 1, 1>>
      [] col[1] = "LookupKindIndex" -> <<3, seed + 4>>
      [] col[1] = "Index" -> <<seed + 5, col[2] + 1, 2>>

\* struct Environment: every column as evaluations over D8; index holds the
\* gate kinds of present
Environment(n, seed, present, alpha, beta, gamma) ==
    [ d1 |-> n,
      column |-> [c \in Columns |-> evals_over(ColumnPoly(c, seed), 8 * n)],
      zk_polynomial |-> [j \in 0 .. (8 * n - 1) |->
                            eval_zk_polynomial(n, FPow(group_gen(8 * n), j))],
      index |-> present,
      alpha |-> alpha, beta |-> beta, gamma |-> gamma,
      joint_combiner |-> FAdd(alpha, 1),
      l0_1 |-> l0_1(n) ]

\* ProofEvaluations<F>: the column polynomials evaluated at one point
ProofEvaluations(seed, pt) ==
    [c \in Columns |-> eval_polynomial(ColumnPoly(c, seed), pt)]

curr_or_next(row) == IF row = Curr THEN 0 ELSE 1

Ok(v) == <<"Ok", v>>
Err(msg) == <<"Err", msg>>
Panic(msg) == <<"Panic", msg>>
IsOk(r) == r[1] = "Ok"

\* a Mul / Add / Sub arm of Expr::evaluate mistaken to unwrap its second
\* operand with a default instead of `?`
evaluate_arm_unwrap_or(tag, x, y) ==
    IF ~IsOk(x) THEN x
    ELSE LET y2 == IF IsOk(y) THEN y[2] ELSE 0 IN
         CASE tag = "Mul" -> Ok(FMul(x[2], y2))
           [] tag = "Add" -> Ok(FAdd(x[2], y2))
           [] tag = "Sub" -> Ok(FSub(x[2], y2))

\* a Mul / Add / Sub arm of Expr::evaluate: x?, then y?, then the field operation
evaluate_arm(tag, x, y) ==
    IF ~IsOk(x) THEN x
    ELSE IF ~IsOk(y) THEN y
    ELSE CASE tag = "Mul" -> Ok(FMul(x[2], y[2]))
           [] tag = "Add" -> Ok(FAdd(x[2], y[2]))
           [] tag = "Sub" -> Ok(FSub(x[2], y[2]))

\* Expr::evaluate: d is |H|, oracles has alpha, beta, gamma, evals is the pair
\* (ProofEvaluations at pt, ProofEvaluations at pt * omega)
RECURSIVE evaluate(_, _, _, _, _)
evaluate(self, d, pt, oracles, evals) ==
    CASE self[1] = "Alpha" -> Ok(FPow(oracles.alpha, self[2]))
      [] self[1] = "Gamma" -> Ok(oracles.gamma)
      [] self[1] = "Beta" -> Ok(oracles.beta)
      [] self[1] = "JointCombiner" -> Err("Joint lookup tables not yet implemented")
      [] self[1] = "Constant" -> Ok(self[2])
      [] IsBinary(self) ->
            evaluate_arm(self[1], evaluate(self[2], d, pt, oracles, evals),
                         evaluate(self[3], d, pt, oracles, evals))
      [] self[1] = "ZkPolynomial" -> Ok(eval_zk_polynomial(d, pt))
      [] self[1] = "UnnormalizedLagrangeBasis" ->
            LET den == FSub(pt, FPow(group_gen(d), self[2])) IN
            IF den = 0 THEN Panic("division by zero")
            ELSE Ok(FMul(evaluate_vanishing_polynomial(d, pt), FInv(den)))
      [] self[1] = "Cell" ->
            IF self[2][1] \in {"LookupKindIndex", "Index"}
            THEN Err("Cannot get index evaluation (should have been linearized away)")
            ELSE Ok(evals[curr_or_next(self[3]) + 1][self[2]])

-----------------------------------------------------------------------------
(* enum Domain, enum EvalResult and the extended-domain evaluation.         *)

D1 == 1
D4 == 4
D8 == 8

\* get_domain: the size of the domain with the given tag
get_domain(d, env) == d * env.d1

EConstant(x) == <<"Constant", x>>
\* an Evals mistaken to carry the tag D8 whatever its domain
Evals_tagged_d8(domain, evals) == <<"Evals", D8, evals>>

Evals(domain, evals) == <<"Evals", domain, evals>>
SubEvals(domain, shift, evals) == <<"SubEvals", domain, shift, evals>>
IsPanic(r) == r[1] = "Panic"

\* fn pows: the loop writes v[i] into the two-element vector [1, x]
RECURSIVE pows_loop(_, _, _, _)
pows_loop(v, x, i, n) ==
    IF i >= n THEN Ok(v)
    ELSE IF i >= VLen(v) THEN Panic("index out of bounds")
    ELSE pows_loop([v EXCEPT ![i] = FMul(v[i - 1], x)], x, i + 1, n)

pows(x, n) ==
    IF n = 0 THEN Ok([j \in {0} |-> 1])
    ELSE IF n = 1 THEN Ok([j \in {0, 1} |-> IF j = 0 THEN 1 ELSE x])
    ELSE pows_loop([j \in {0, 1} |-> IF j = 0 THEN 1 ELSE x], x, 2, n)

unnormalized_lagrange_evals(l0_1_, i, res_domain, env) ==
    LET k == res_domain
        size == get_domain(res_domain, env)
        n == env.d1
        omega == group_gen(n)
        omega_i == FPow(omega, i)
        omega_minus_i == FPow(omega, n - i)
        omega_k_n_pows == pows(FPow(group_gen(size), n), k)
        omega_k_pows == pows(group_gen(size), k)
    IN
    IF ~(i < n) THEN Panic("assertion failed: ii < n")
    ELSE IF IsPanic(omega_k_n_pows) THEN omega_k_n_pows
    ELSE IF IsPanic(omega_k_pows) THEN omega_k_pows
    ELSE
    LET v0 == [j \in 0 .. (k * n - 1) |->
                 IF j % k = 0 THEN 1
                 ELSE FSub(FMul(FPow(omega, j \div k), omega_k_pows[2][j % k]), omega_i)]
        v1 == batch_inversion(v0)
        \* set the 0 mod k indices
        v2 == [v1 EXCEPT ![k * i] = FMul(omega_minus_i, l0_1_)]
        v3 == [j \in DOMAIN v2 |-> IF j % k = 0 /\ j \div k >= 1 THEN 0 ELSE v2[j]]
        \* finish the non-zero mod k indices
        v4 == [j \in DOMAIN v3 |->
                 IF j % k # 0 THEN FMul(v3[j], FSub(omega_k_n_pows[2][j % k], 1))
                 ELSE v3[j]]
    IN Ok(v4)

fop(f, x, y) ==
    CASE f = "add" -> FAdd(x, y)
      [] f = "sub" -> FSub(x, y)
      [] f = "mul" -> FMul(x, y)

\* the indices with the reduction at the last index left out
aligned_unreduced(scale, s, n, len, wrap) ==
    [i \in 0 .. (n - 1) |-> IF wrap THEN (scale * i + s) % len ELSE scale * i + s]

\* the source indices a SubEvals is read at for the target indices 0 .. n-1:
\* reduced modulo len at every index (wrap) or at the last index only
aligned(scale, s, n, len, wrap) ==
    [i \in 0 .. (n - 1) |->
        IF wrap \/ i = n - 1 THEN (scale * i + s) % len ELSE scale * i + s]

InRange(idx, v) == \A i \in DOMAIN idx : idx[i] < VLen(v)

\* the match of EvalResult::add / sub / mul; wrapSC, wrapSE, wrapSS say which
\* of the SubEvals branches reduce every index, len2 is the modulus the
\* SubEvals-SubEvals branch uses for its second operand
EvalResult_op(f, self, other, res_domain, wrapSC, wrapSE, wrapSS, len2) ==
    LET n == res_domain[2]
        t == res_domain[1]
        k1 == self[1]
        k2 == other[1]
    IN
    CASE k1 = "Panic" -> self
      [] k1 # "Panic" /\ k2 = "Panic" -> other
      [] k1 = "Constant" /\ k2 = "Constant" -> EConstant(fop(f, self[2], other[2]))
      [] k1 = "Evals" /\ k2 = "Constant" ->
            Evals(self[2], [i \in DOMAIN self[3] |-> fop(f, self[3][i], other[2])])
      [] k1 = "Constant" /\ k2 = "Evals" ->
            Evals(other[2], [i \in DOMAIN other[3] |-> fop(f, self[2], other[3][i])])
      [] k1 = "SubEvals" /\ k2 = "Constant" ->
            LET idx == aligned(self[2] \div t, self[3], n, VLen(self[4]), wrapSC) IN
            IF ~InRange(idx, self[4]) THEN Panic("index out of bounds")
            ELSE Evals(t, [i \in 0 .. (n - 1) |-> fop(f, self[4][idx[i]], other[2])])
      [] k1 = "Constant" /\ k2 = "SubEvals" ->
            LET idx == aligned(other[2] \div t, other[3], n, VLen(other[4]), wrapSC) IN
            IF ~InRange(idx, other[4]) THEN Panic("index out of bounds")
            ELSE Evals(t, [i \in 0 .. (n - 1) |-> fop(f, self[2], other[4][idx[i]])])
      [] k1 = "Evals" /\ k2 = "Evals" ->
            IF self[2] # other[2] THEN Panic("assertion failed: d1 == d2")
            ELSE Evals(self[2], [i \in DOMAIN self[3] |-> fop(f, self[3][i], other[3][i])])
      [] k1 = "SubEvals" /\ k2 = "Evals" ->
            LET m == VLen(other[3])
                idx == aligned(self[2] \div other[2], self[3], m, VLen(self[4]), wrapSE)
            IN
            IF ~InRange(idx, self[4]) THEN Panic("index out of bounds")
            ELSE Evals(other[2], [i \in 0 .. (m - 1) |-> fop(f, self[4][idx[i]], other[3][i])])
      [] k1 = "Evals" /\ k2 = "SubEvals" ->
            LET m == VLen(self[3])
                idx == aligned(other[2] \div self[2], other[3], m, VLen(other[4]), wrapSE)
            IN
            IF ~InRange(idx, other[4]) THEN Panic("index out of bounds")
            ELSE Evals(self[2], [i \in 0 .. (m - 1) |-> fop(f, self[3][i], other[4][idx[i]])])
      [] k1 = "SubEvals" /\ k2 = "SubEvals" ->
            LET idx1 == aligned(self[2] \div t, self[3], n, VLen(self[4]), wrapSS)
                idx2 == aligned(other[2] \div t, other[3], n,
                                IF len2 = "es1" THEN VLen(self[4]) ELSE VLen(other[4]),
                                wrapSS)
            IN
            IF ~InRange(idx1, self[4]) \/ ~InRange(idx2, other[4])
            THEN Panic("index out of bounds")
            ELSE Evals(t, [i \in 0 .. (n - 1) |->
                              fop(f, self[4][idx1[i]], other[4][idx2[i]])])

EvalResult_add(self, other, res_domain) ==
    EvalResult_op("add", self, other, res_domain, FALSE, FALSE, FALSE, "es2")

\* sub mistaken to subtract the left operand from the right
EvalResult_sub_right_minus_left(self, other, res_domain) ==
    EvalResult_op("sub", other, self, res_domain, TRUE, FALSE, TRUE, "es2")

EvalResult_sub(self, other, res_domain) ==
    EvalResult_op("sub", self, other, res_domain, TRUE, FALSE, TRUE, "es2")

EvalResult_mul(self, other, res_domain) ==
    EvalResult_op("mul", self, other, res_domain, TRUE, FALSE, TRUE, "es1")

\* the Cell arm mistaken to read an absent gate as the constant 1
evaluations_cell_absent_one(col, row, env) ==
    IF col[1] = "Index" /\ col[2] \notin env.index
    THEN EConstant(1)
    ELSE SubEvals(D8, curr_or_next(row), env.column[col])

\* the Cell arm of Expr::evaluations_: the column borrowed from the
\* environment, or Constant(0) for a gate kind env.index does not hold
evaluations_cell(col, row, env) ==
    IF col[1] = "Index" /\ col[2] \notin env.index
    THEN EConstant(0)
    ELSE SubEvals(D8, curr_or_next(row), env.column[col])

\* Expr::evaluations_: the bottom-up pass in the EvalResult algebra
RECURSIVE evaluations_(_, _, _)
evaluations_(self, d, env) ==
    CASE self[1] = "ZkPolynomial" -> SubEvals(D8, 0, env.zk_polynomial)
      [] self[1] = "Constant" -> EConstant(self[2])
      [] self[1] = "Alpha" -> EConstant(FPow(env.alpha, self[2]))
      [] self[1] = "Beta" -> EConstant(env.beta)
      [] self[1] = "Gamma" -> EConstant(env.gamma)
      [] self[1] = "JointCombiner" -> EConstant(FPow(env.joint_combiner, self[2]))
      [] self[1] = "UnnormalizedLagrangeBasis" ->
            LET r == unnormalized_lagrange_evals(env.l0_1, self[2], d, env) IN
            IF IsPanic(r) THEN r ELSE Evals(d, r[2])
      [] self[1] = "Cell" -> evaluations_cell(self[2], self[3], env)
      [] self[1] = "Mul" ->
            LET x == evaluations_(self[2], d, env) IN
            IF IsPanic(x) THEN x
            ELSE EvalResult_mul(x, evaluations_(self[3], d, env), <<d, get_domain(d, env)>>)
      [] self[1] = "Add" ->
            LET x == evaluations_(self[2], d, env) IN
            IF IsPanic(x) THEN x
            ELSE EvalResult_add(x, evaluations_(self[3], d, env), <<d, get_domain(d, env)>>)
      [] self[1] = "Sub" ->
            LET x == evaluations_(self[2], d, env) IN
            IF IsPanic(x) THEN x
            ELSE EvalResult_sub(x, evaluations_(self[3], d, env), <<d, get_domain(d, env)>>)

\* the domain tag Expr::evaluations picks from the degree estimate; 0 stands
\* for the panic "constraint had degree > 8"
evaluations_domain(self, env) ==
    LET d1_size == env.d1
        deg == degree(self, d1_size)
    IN
    IF deg <= d1_size THEN D1
    ELSE IF deg <= 4 * d1_size THEN D4
    ELSE IF deg <= 8 * d1_size THEN D8
    ELSE 0

\* Expr::evaluations: Ok(vector) or Panic
evaluations(self, env) ==
    LET d == evaluations_domain(self, env) IN
    IF d = 0 THEN Panic("constraint had degree > 8")
    ELSE
    LET r == evaluations_(self, d, env)
        size == get_domain(d, env)
    IN
    CASE r[1] = "Panic" -> r
      [] r[1] = "Evals" ->
            IF r[2] # d THEN Panic("assertion failed: domain == d") ELSE Ok(r[3])
      [] r[1] = "Constant" -> Ok([i \in 0 .. (size - 1) |-> r[2]])
      [] r[1] = "SubEvals" ->
            LET scale == r[2] \div d IN
            Ok([i \in 0 .. (size - 1) |-> r[4][(scale * i + r[3]) % VLen(r[4])]])

-----------------------------------------------------------------------------
(* Monomial expansion and linearization.  A HashMap is a function on its   *)
(* key set; a hash map is iterated in an order the program does not fix,   *)
(* so every operation that iterates one has a set of possible outcomes.    *)

RECURSIVE Perms(_)
Perms(S) ==
    IF S = {} THEN {<<>>}
    ELSE UNION {{<<x>> \o p : p \in Perms(S \ {x})} : x \in S}

\* derive(Ord) on Column: the variant first, then its payload
ColumnOrd(col) ==
    (CASE col[1] = "Witness" -> 0
       [] col[1] = "Z" -> 1
       [] col[1] = "LookupSorted" -> 2
       [] col[1] = "LookupAggreg" -> 3
       [] col[1] = "LookupTable" -> 4
       [] col[1] = "LookupKindIndex" -> 5
       [] col[1] = "Index" -> 6) * 16 + col[2]

\* derive(Ord) on Variable: col, then row with Curr < Next
VariableOrd(v) == 2 * ColumnOrd(v[1]) + curr_or_next(v[2])

\* m1.extend(m2) with no sort
extend_unsorted(m1, m2) == m1 \o m2

\* m1.extend(m2); m.sort() on two sorted keys
RECURSIVE sort_extend(_, _)
sort_extend(m1, m2) ==
    IF Len(m1) = 0 THEN m2
    ELSE IF Len(m2) = 0 THEN m1
    ELSE IF VariableOrd(Head(m1)) <= VariableOrd(Head(m2))
         THEN <<Head(m1)>> \o sort_extend(Tail(m1), m2)
         ELSE <<Head(m2)>> \o sort_extend(m1, Tail(m2))

\* HashMap::new() with one entry
sing(v, c) == [k \in {v} |-> c]

\* *res.entry(m).or_insert(0.into()) = f(old value)
entry_add(res, m, c) ==
    [k \in DOMAIN res \cup {m} |->
        IF k = m THEN add(IF m \in DOMAIN res THEN res[m] ELSE from(0), c) ELSE res[k]]

entry_sub(res, m, c) ==
    [k \in DOMAIN res \cup {m} |->
        IF k = m THEN sub(IF m \in DOMAIN res THEN res[m] ELSE from(0), c) ELSE res[k]]

\* the Add / Sub arm: e2's entries are merged into e1's, visited in order o
RECURSIVE merge_loop(_, _, _, _)
merge_loop(res, e2, o, subtract) ==
    IF Len(o) = 0 THEN res
    ELSE merge_loop(IF subtract THEN entry_sub(res, Head(o), e2[Head(o)])
                    ELSE entry_add(res, Head(o), e2[Head(o)]),
                    e2, Tail(o), subtract)

\* the Mul arm: the pairs (m1, m2) in the order of the two nested loops
mul_pairs(o1, o2) ==
    [j \in 1 .. (Len(o1) * Len(o2)) |->
        <<o1[((j - 1) \div Len(o2)) + 1], o2[((j - 1) % Len(o2)) + 1]>>]

RECURSIVE mul_loop(_, _, _, _)
mul_loop(res, e1, e2, pairs) ==
    IF Len(pairs) = 0 THEN res
    ELSE LET m1 == Head(pairs)[1]
             m2 == Head(pairs)[2]
         IN mul_loop(entry_add(res, sort_extend(m1, m2), mul(e1[m1], e2[m2])),
                     e1, e2, Tail(pairs))

\* Expr::monomials: the set of maps it can return
RECURSIVE monomials(_)
monomials(self) ==
    CASE self[1] = "Cell" -> {sing(<<Variable(self[2], self[3])>>, Constant(1))}
      [] self[1] \in {"Add", "Sub"} ->
            UNION {UNION {{merge_loop(e1, e2, o, self[1] = "Sub") : o \in Perms(DOMAIN e2)}
                          : e2 \in monomials(self[3])}
                   : e1 \in monomials(self[2])}
      [] self[1] = "Mul" ->
            UNION {UNION {{mul_loop(<<>>, e1, e2, mul_pairs(o1, o2))
                            : o1 \in Perms(DOMAIN e1), o2 \in Perms(DOMAIN e2)}
                          : e2 \in monomials(self[3])}
                   : e1 \in monomials(self[2])}
      [] OTHER -> {sing(<<>>, self)}

\* Expr::combine_constraints: the fold over cs zipped with alpha0, alpha0+1, ...
RECURSIVE combine_loop(_, _, _)
combine_loop(acc, i, cs) ==
    IF Len(cs) = 0 THEN acc
    ELSE LET a == IF i = 0 THEN from(1) ELSE Alpha(i) IN
         combine_loop(add(acc, mul(a, Head(cs))), i + 1, Tail(cs))

\* combine_constraints zipping cs with alpha0 + 1, alpha0 + 2, ...
combine_constraints_from_next(alpha0, cs) == combine_loop(from(0), alpha0 + 1, cs)

combine_constraints(alpha0, cs) == combine_loop(from(0), alpha0, cs)

Linearization(constant_term, index_terms) ==
    [constant_term |-> constant_term, index_terms |-> index_terms]

\* a partition that puts every variable on the evaluated side
partition_all_evaluated(m, evaluated, want) == IF want THEN m ELSE <<>>

\* m.into_iter().partition(|v| evaluated.contains(&v.col)), one side of it
RECURSIVE partition(_, _, _)
partition(m, evaluated, want) ==
    IF Len(m) = 0 THEN <<>>
    ELSE IF (Head(m)[1] \in evaluated) = want
         THEN <<Head(m)>> \o partition(Tail(m), evaluated, want)
         ELSE partition(Tail(m), evaluated, want)

\* a fold that leaves the evaluated cells out of the coefficient
fold_cells_dropped(c, vs) == c

\* evaluated.into_iter().fold(c, |acc, v| acc * Expr::Cell(v))
RECURSIVE fold_cells(_, _)
fold_cells(c, vs) ==
    IF Len(vs) = 0 THEN c ELSE fold_cells(mul(c, Cell(Head(vs))), Tail(vs))

\* the loop mistaken to accumulate a variable at the row Next as well
RECURSIVE linearize_loop_any_row(_, _, _, _, _)
linearize_loop_any_row(res, constant_term, ms, o, evaluated) ==
    IF Len(o) = 0 THEN Ok(<<res, constant_term>>)
    ELSE
    LET m == Head(o)
        unevaluated == partition(m, evaluated, FALSE)
        c == fold_cells(ms[m], partition(m, evaluated, TRUE))
    IN
    IF Len(unevaluated) = 0
    THEN linearize_loop_any_row(res, add(constant_term, c), ms, Tail(o), evaluated)
    ELSE IF Len(unevaluated) = 1
    THEN linearize_loop_any_row(entry_add(res, unevaluated[1][1], c), constant_term, ms,
                                Tail(o), evaluated)
    ELSE Err("Linearization failed")

\* the loop of Expr::linearize over the monomials ms visited in order o:
\* Err(message), or Ok(<<res, constant_term>>)
RECURSIVE linearize_loop(_, _, _, _, _)
linearize_loop(res, constant_term, ms, o, evaluated) ==
    IF Len(o) = 0 THEN Ok(<<res, constant_term>>)
    ELSE
    LET m == Head(o)
        unevaluated == partition(m, evaluated, FALSE)
        c == fold_cells(ms[m], partition(m, evaluated, TRUE))
    IN
    IF Len(unevaluated) = 0
    THEN linearize_loop(res, add(constant_term, c), ms, Tail(o), evaluated)
    ELSE IF Len(unevaluated) = 1
    THEN LET var == unevaluated[1] IN
         IF var[2] = Next_
         THEN Err("Linearization failed (needed polynomial value at \"next\" row)")
         ELSE linearize_loop(entry_add(res, var[1], c), constant_term, ms, Tail(o),
                             evaluated)
    ELSE Err("Linearization failed")

\* res.into_iter().collect(): the entries of res in some order
collect(res) == {[j \in 1 .. Len(o) |-> <<o[j], res[o[j]]>>] : o \in Perms(DOMAIN res)}

\* Expr::linearize: the set of results it can return
linearize(self, evaluated) ==
    UNION {UNION {LET r == linearize_loop(<<>>, from(0), ms, o, evaluated) IN
                  IF IsOk(r)
                  THEN {Ok(Linearization(r[2][2], it)) : it \in collect(r[2][1])}
                  ELSE {r}
                  : o \in Perms(DOMAIN ms)}
           : ms \in monomials(self)}

-----------------------------------------------------------------------------
(* The state machine of the expression library: a client builds an         *)
(* expression with + - * from the leaves of its pool, then calls one of    *)
(* the library's functions on it.                                          *)

MaxDepth == 2
MaxLogN == 1
MaxSeed == 2
MaxAlpha0 == 2

Seeds == 1 .. MaxSeed

\* the sizes |H| of the constraint system's domain d1
DomainSizes == {Pow2(l) : l \in 0 .. MaxLogN}

RECURSIVE Depth(_)
Depth(e) == IF IsBinary(e) THEN 1 + Max(Depth(e[2]), Depth(e[3])) ELSE 0

RECURSIVE Nodes(_)
Nodes(e) == IF IsBinary(e) THEN {e} \cup Nodes(e[2]) \cup Nodes(e[3]) ELSE {e}

NoCall == [fn |-> "new"]

ProverIdle ==
    /\ pc = "idle"
    /\ fq_sponge = <<>>
    /\ fr_sponge = <<>>
    /\ prover = <<>>

ExprIdle ==
    /\ pool = {}
    /\ expr = Constant(0)
    /\ call = NoCall

InitExpr(pools) ==
    /\ pool \in pools
    /\ expr \in pool
    /\ call = NoCall
    /\ ProverIdle

Building == call.fn \in {"new", "add", "sub", "mul"}

\* self op other with the overloaded operator of the given name
apply(f, self, other) ==
    CASE f = "add" -> add(self, other)
      [] f = "sub" -> sub(self, other)
      [] f = "mul" -> mul(self, other)

\* expr = self op other, an operand being a leaf or the expression itself
Build ==
    /\ Building
    /\ \E f \in {"add", "sub", "mul"}, self \in pool \cup {expr}, other \in pool \cup {expr} :
        /\ expr \in {self, other}
        /\ Depth(apply(f, self, other)) <= MaxDepth
        /\ expr' = apply(f, self, other)
        /\ call' = [fn |-> f, self |-> self, other |-> other]
    /\ UNCHANGED <<pool, pc, fq_sponge, fr_sponge, prover>>

\* RandomOracles of a proof, told apart by seed
RandomOracles(seed) == [alpha |-> seed + 1, beta |-> seed + 4, gamma |-> 7 * seed]

\* the points the scalar evaluation is asked at: 1 lies in H, the generator of
\* the field lies in no domain of the model
EvaluatePoints(n) == {1, TWO_ADIC_ROOT_OF_UNITY}

\* the pair [evals at zeta, evals at zeta * omega] the prover computes
evals_at(seed, n, pt) ==
    <<ProofEvaluations(seed, pt), ProofEvaluations(seed, FMul(pt, group_gen(n)))>>

\* a call of Expr::evaluate on the expression built
Evaluate ==
    /\ Building
    /\ \E n \in DomainSizes, seed \in Seeds :
       \E pt \in EvaluatePoints(n) :
        call' = [fn |-> "evaluate", d |-> n, pt |-> pt, seed |-> seed,
                 ret |-> evaluate(expr, n, pt, RandomOracles(seed), evals_at(seed, n, pt))]
    /\ UNCHANGED <<pool, expr, pc, fq_sponge, fr_sponge, prover>>

env_of(n, seed, present) ==
    Environment(n, seed, present, RandomOracles(seed).alpha, RandomOracles(seed).beta,
                RandomOracles(seed).gamma)

\* a call of Expr::evaluations on the expression built
Evaluations ==
    /\ Building
    /\ \E n \in DomainSizes, seed \in Seeds, present \in {{}, {0}} :
        call' = [fn |-> "evaluations", d1 |-> n, seed |-> seed, present |-> present,
                 ret |-> evaluations(expr, env_of(n, seed, present))]
    /\ UNCHANGED <<pool, expr, pc, fq_sponge, fr_sponge, prover>>

\* a call of Expr::monomials on the expression built
Monomials ==
    /\ Building
    /\ \E ret \in monomials(expr) : call' = [fn |-> "monomials", ret |-> ret]
    /\ UNCHANGED <<pool, expr, pc, fq_sponge, fr_sponge, prover>>

\* the columns of the cells of an expression
RECURSIVE columns_of(_)
columns_of(e) ==
    IF IsBinary(e) THEN columns_of(e[2]) \cup columns_of(e[3])
    ELSE IF e[1] = "Cell" THEN {e[2]} ELSE {}

\* a call of Expr::linearize on the expression built
Linearize ==
    /\ Building
    /\ \E evaluated \in SUBSET UNION {columns_of(l) : l \in pool} :
       \E ret \in linearize(expr, evaluated) :
        call' = [fn |-> "linearize", evaluated |-> evaluated, ret |-> ret]
    /\ UNCHANGED <<pool, expr, pc, fq_sponge, fr_sponge, prover>>

-----------------------------------------------------------------------------
(* Spec: expressions built with + - * and evaluated at a point.            *)

EvaluatePools ==
    { {Constant(0), Constant(3), Cell(Variable(Witness(0), Curr))},
      {Constant(1), JointCombiner(1), Cell(Variable(Z, Next_))},
      {Cell(Variable(Index(0), Curr)), Alpha(2), UnnormalizedLagrangeBasis(0)},
      {Cell(Variable(LookupKindIndex(0), Next_)), Beta, ZkPolynomial},
      {JointCombiner(2), UnnormalizedLagrangeBasis(0), Gamma} }

Init == InitExpr(EvaluatePools)

Next == Build \/ Evaluate

Spec == Init /\ [][Next]_vars

\* C6: the operators + and * drop a zero summand and a unit factor and
\* otherwise wrap both operands in one Add / Mul node; - always builds Sub.
PeepholeConstruction ==
    /\ call.fn = "add" =>
         expr = IF call.self = Constant(0) THEN call.other
                ELSE IF call.other = Constant(0) THEN call.self
                ELSE <<"Add", call.self, call.other>>
    /\ call.fn = "mul" =>
         expr = IF call.self = Constant(1) THEN call.other
                ELSE IF call.other = Constant(1) THEN call.self
                ELSE <<"Mul", call.self, call.other>>
    /\ call.fn = "sub" => expr = <<"Sub", call.self, call.other>>

\* Constant(0) + Constant(3) * Cell(v) has been built: it is Mul(Constant(3), Cell(v))
PeepholeScenario ==
    /\ call.fn = "add"
    /\ call.self = Constant(0)
    /\ call.other = <<"Mul", Constant(3), <<"Cell", Witness(0), Curr>>>>
    /\ expr = call.other

\* the tree holds a node the scalar evaluation has no value for
RECURSIVE Unsupported(_)
Unsupported(e) ==
    IF IsBinary(e) THEN Unsupported(e[2]) \/ Unsupported(e[3])
    ELSE \/ e[1] = "JointCombiner"
         \/ e[1] = "Cell" /\ e[2][1] \in {"Index", "LookupKindIndex"}

\* the tree holds an UnnormalizedLagrangeBasis node
RECURSIVE HasBasis(_)
HasBasis(e) ==
    IF IsBinary(e) THEN HasBasis(e[2]) \/ HasBasis(e[3])
    ELSE e[1] = "UnnormalizedLagrangeBasis"

\* pt is the pole omega^i of some UnnormalizedLagrangeBasis(i) of the tree
RECURSIVE AtPole(_, _, _)
AtPole(e, d, pt) ==
    IF IsBinary(e) THEN AtPole(e[2], d, pt) \/ AtPole(e[3], d, pt)
    ELSE e[1] = "UnnormalizedLagrangeBasis" /\ pt = FPow(group_gen(d), e[2])

\* the field value an expression denotes at pt, every cell having the value
\* cells[<<col, row>>] and the joint combiner the value jc
RECURSIVE value(_, _, _, _, _, _)
value(e, d, pt, oracles, jc, cells) ==
    CASE e[1] = "Constant" -> e[2]
      [] e[1] = "Alpha" -> FPow(oracles.alpha, e[2])
      [] e[1] = "Beta" -> oracles.beta
      [] e[1] = "Gamma" -> oracles.gamma
      [] e[1] = "JointCombiner" -> FPow(jc, e[2])
      [] e[1] = "Cell" -> cells[<<e[2], e[3]>>]
      [] e[1] = "ZkPolynomial" -> eval_zk_polynomial(d, pt)
      [] e[1] = "UnnormalizedLagrangeBasis" ->
            FMul(FSub(FPow(pt, d), 1), FInv(FSub(pt, FPow(group_gen(d), e[2]))))
      [] e[1] = "Add" ->
            (value(e[2], d, pt, oracles, jc, cells) + value(e[3], d, pt, oracles, jc, cells)) % P
      [] e[1] = "Mul" ->
            (value(e[2], d, pt, oracles, jc, cells) * value(e[3], d, pt, oracles, jc, cells)) % P
      [] e[1] = "Sub" ->
            (value(e[2], d, pt, oracles, jc, cells) - value(e[3], d, pt, oracles, jc, cells)) % P

Rows == {Curr, Next_}

\* the cell values of the call: evals[0] for Curr, evals[1] for Next
CellsOfCall ==
    [v \in Columns \X Rows |->
        eval_polynomial(ColumnPoly(v[1], call.seed),
                        IF v[2] = Curr THEN call.pt
                        ELSE (call.pt * group_gen(call.d)) % P)]

ValueOfCall == value(expr, call.d, call.pt, RandomOracles(call.seed), 0, CellsOfCall)

\* C8 as stated: evaluate returns an error value exactly when the tree holds a
\* JointCombiner or a cell of an Index / LookupKindIndex column, and Ok with
\* the field value of the tree otherwise; it never aborts.
EvaluateErrorExactly ==
    call.fn = "evaluate" =>
        /\ call.ret[1] = "Err" <=> Unsupported(expr)
        /\ (~Unsupported(expr) /\ ~HasBasis(expr)) => call.ret = <<"Ok", ValueOfCall>>

\* C8 amended: the same, for a point that is the pole of no
\* UnnormalizedLagrangeBasis node of the tree.
EvaluateErrorExactlyOffPoles ==
    (call.fn = "evaluate" /\ ~AtPole(expr, call.d, call.pt)) =>
        /\ call.ret[1] = "Err" <=> Unsupported(expr)
        /\ ~Unsupported(expr) => call.ret = <<"Ok", ValueOfCall>>

\* an error has come up through two enclosing nodes, past a basis polynomial
\* evaluated off its pole
EvaluateErrorPropagated ==
    /\ call.fn = "evaluate"
    /\ Depth(expr) = 2
    /\ IsBinary(expr[2])
    /\ expr[2][2][1] = "UnnormalizedLagrangeBasis"
    /\ expr[2][3][1] = "JointCombiner"
    /\ ~AtPole(expr, call.d, call.pt)
    /\ call.ret[1] = "Err"

-----------------------------------------------------------------------------
(* SpecCombine: calls of Expr::combine_constraints.                        *)

MaxConstraints == 3

\* the constraints handed to combine_constraints
ConstraintPool ==
    {Constant(0), Constant(1), Cell(Variable(Witness(0), Curr)),
     Mul(Cell(Variable(Z, Next_)), Beta),
     Sub(Cell(Variable(Witness(1), Curr)), Constant(2))}

RECURSIVE SeqsUpTo(_, _)
SeqsUpTo(S, n) ==
    IF n = 0 THEN {<<>>}
    ELSE LET shorter == SeqsUpTo(S, n - 1) IN
         shorter \cup {Append(q, x) : q \in {r \in shorter : Len(r) = n - 1}, x \in S}

InitCombine == ExprIdle /\ ProverIdle

CombineConstraints ==
    /\ call = NoCall
    /\ \E alpha0 \in 0 .. MaxAlpha0, cs \in SeqsUpTo(ConstraintPool, MaxConstraints) :
        /\ expr' = combine_constraints(alpha0, cs)
        /\ call' = [fn |-> "combine_constraints", alpha0 |-> alpha0, cs |-> cs]
    /\ UNCHANGED <<pool, pc, fq_sponge, fr_sponge, prover>>

SpecCombine == InitCombine /\ [][CombineConstraints]_vars

\* the cell values of the proof with the given seed at the point pt of a
\* domain of size n
CellsAt(seed, n, pt) ==
    [v \in Columns \X Rows |->
        eval_polynomial(ColumnPoly(v[1], seed),
                        IF v[2] = Curr THEN pt ELSE (pt * group_gen(n)) % P)]

\* the value of an expression for the proof with the given seed, at the
\* generator of the field, |H| = 2
ValueFor(e, seed) ==
    value(e, 2, TWO_ADIC_ROOT_OF_UNITY, RandomOracles(seed), seed + 2,
          CellsAt(seed, 2, TWO_ADIC_ROOT_OF_UNITY))

RECURSIVE AlphaPowers(_)
AlphaPowers(e) ==
    IF IsBinary(e) THEN AlphaPowers(e[2]) \cup AlphaPowers(e[3])
    ELSE IF e[1] = "Alpha" THEN {e[2]} ELSE {}

\* sum over k of alpha^(a0 + k) * value(cs[k + 1])
RECURSIVE AlphaSum(_, _, _)
AlphaSum(a0, cs, seed) ==
    IF Len(cs) = 0 THEN 0
    ELSE (FPow(RandomOracles(seed).alpha, a0) * ValueFor(Head(cs), seed)
          + AlphaSum(a0 + 1, Tail(cs), seed)) % P

\* C7: combine_constraints(a0, cs) has the value sum_k alpha^(a0+k) * c_k, its
\* Alpha nodes are the Alpha{a0+k} with a0 + k > 0 (the k = 0 term has no
\* Alpha node exactly when a0 = 0), and it is Constant(0) for an empty list.
CombineConstraintsSum ==
    call.fn = "combine_constraints" =>
        /\ \A seed \in Seeds : ValueFor(expr, seed) = AlphaSum(call.alpha0, call.cs, seed)
        /\ AlphaPowers(expr) = {call.alpha0 + k : k \in 0 .. (Len(call.cs) - 1)} \ {0}
        /\ Len(call.cs) = 0 => expr = Constant(0)

\* three constraints have been combined from alpha^0: the first has no Alpha node
CombineFromZero ==
    /\ call.fn = "combine_constraints"
    /\ call.alpha0 = 0
    /\ Len(call.cs) = 3
    /\ call.cs[1][1] = "Cell"
    /\ AlphaPowers(expr) = {1, 2}

-----------------------------------------------------------------------------
(* SpecDomains: EvaluationDomains::create of circuits/marlin.  The field   *)
(* of the bundle has subgroups of the orders 2^0 .. 2^DOMAIN_TWO_ADICITY.  *)

DOMAIN_TWO_ADICITY == 13

MaxEntries == 9

None == <<"None">>
Some(v) == <<"Some", v>>

\* usize::next_power_of_two
RECURSIVE next_power_of_two_from(_, _)
next_power_of_two_from(s, n) == IF s >= n THEN s ELSE next_power_of_two_from(2 * s, n)

next_power_of_two(n) == next_power_of_two_from(1, n)

\* the field has a subgroup of the power-of-two order size
has_subgroup(size) == size <= Pow2(DOMAIN_TWO_ADICITY)

\* EvaluationDomain::compute_size_of_domain
compute_size_of_domain(num_coeffs) ==
    LET size == next_power_of_two(num_coeffs) IN
    IF has_subgroup(size) THEN Some(size) ELSE None

\* EvaluationDomain::new, a domain being told by its size
EvaluationDomain_new(num_coeffs) ==
    LET size == next_power_of_two(num_coeffs) IN
    IF has_subgroup(size) THEN Some(size) ELSE None

\* EvaluationDomains::create with b sized from 3 * k_group_size
create_without_minus_three(variables, public_inputs, nonzero_entries) ==
    LET h_group_size == compute_size_of_domain(variables)
        x_group_size == compute_size_of_domain(public_inputs)
        k_group_size == compute_size_of_domain(nonzero_entries)
    IN
    IF None \in {h_group_size, x_group_size, k_group_size} THEN None
    ELSE
    LET h == EvaluationDomain_new(h_group_size[2])
        k == EvaluationDomain_new(k_group_size[2])
        b == EvaluationDomain_new(k_group_size[2] * 3)
        x == EvaluationDomain_new(x_group_size[2])
    IN
    IF None \in {h, k, b, x} THEN None
    ELSE Some([h |-> h[2], k |-> k[2], b |-> b[2], x |-> x[2]])

\* EvaluationDomains::create
create(variables, public_inputs, nonzero_entries) ==
    LET h_group_size == compute_size_of_domain(variables)
        x_group_size == compute_size_of_domain(public_inputs)
        k_group_size == compute_size_of_domain(nonzero_entries)
    IN
    IF None \in {h_group_size, x_group_size, k_group_size} THEN None
    ELSE
    LET h == EvaluationDomain_new(h_group_size[2])
        k == EvaluationDomain_new(k_group_size[2])
        b == EvaluationDomain_new(k_group_size[2] * 3 - 3)
        x == EvaluationDomain_new(x_group_size[2])
    IN
    IF None \in {h, k, b, x} THEN None
    ELSE Some([h |-> h[2], k |-> k[2], b |-> b[2], x |-> x[2]])

\* the bounds create is called with: the small ones, the scenario's and the
\* ones around the largest subgroups
DomainInputs == (0 .. MaxEntries) \cup {1000, 2000, 2048, 2049, 2731, 2732, 8192, 8193}

InitDomains == ExprIdle /\ ProverIdle

Create ==
    /\ call = NoCall
    /\ \E variables \in DomainInputs, public_inputs \in DomainInputs,
          nonzero_entries \in DomainInputs :
        call' = [fn |-> "create", variables |-> variables,
                 public_inputs |-> public_inputs, nonzero_entries |-> nonzero_entries,
                 ret |-> create(variables, public_inputs, nonzero_entries)]
    /\ UNCHANGED <<pool, expr, pc, fq_sponge, fr_sponge, prover>>

SpecDomains == InitDomains /\ [][Create]_vars

PowersOfTwo == {Pow2(l) : l \in 0 .. (DOMAIN_TWO_ADICITY + 4)}

\* the smallest power of two that is at least n
SmallestPowerOfTwo(n) ==
    CHOOSE s \in PowersOfTwo : s >= n /\ \A t \in PowersOfTwo : t >= n => s <= t

\* C9: create returns the bundle of the smallest power-of-two sizes for the
\* three bounds and for 3|K| - 3 when the field has subgroups of the four
\* orders, and None otherwise.
CreateSmallestDomains ==
    call.fn = "create" =>
        LET h == SmallestPowerOfTwo(call.variables)
            x == SmallestPowerOfTwo(call.public_inputs)
            k == SmallestPowerOfTwo(call.nonzero_entries)
            b == SmallestPowerOfTwo(3 * k - 3)
        IN
        IF \A s \in {h, x, k, b} : s \in {Pow2(l) : l \in 0 .. DOMAIN_TWO_ADICITY}
        THEN call.ret = <<"Some", [h |-> h, k |-> k, b |-> b, x |-> x]>>
        ELSE call.ret = <<"None">>

\* create(1000, 5, 2000) has returned |H| = 1024, |K| = 2048, |X| = 8, |B| = 8192
CreateScenario ==
    /\ call.fn = "create"
    /\ call.variables = 1000 /\ call.public_inputs = 5 /\ call.nonzero_entries = 2000
    /\ call.ret = <<"Some", [h |-> 1024, k |-> 2048, b |-> 8192, x |-> 8]>>

-----------------------------------------------------------------------------
(* SpecLinearize: expressions built with + - * and expanded into monomials *)
(* or linearized over a set of evaluated columns.                          *)

LinearizePools ==
    { {Cell(Variable(Witness(0), Curr)), Cell(Variable(Witness(1), Curr)),
       Cell(Variable(Z, Next_))},
      {Cell(Variable(Witness(1), Curr)), Constant(2), UnnormalizedLagrangeBasis(0)},
      {Cell(Variable(Witness(0), Next_)), Cell(Variable(Witness(0), Curr)), Alpha(1)} }

InitLinearize == InitExpr(LinearizePools)

NextLinearize == Build \/ Monomials \/ Linearize

SpecLinearize == InitLinearize /\ [][NextLinearize]_vars

\* the sum in the field of the values of a function
RECURSIVE SumFn(_)
SumFn(f) ==
    IF DOMAIN f = {} THEN 0
    ELSE LET k == CHOOSE k \in DOMAIN f : TRUE IN
         (f[k] + SumFn([j \in DOMAIN f \ {k} |-> f[j]])) % P

\* the product of the cells of a key, for the proof with the given seed
RECURSIVE KeyValue(_, _)
KeyValue(k, seed) ==
    IF Len(k) = 0 THEN 1
    ELSE (ValueFor(Cell(Head(k)), seed) * KeyValue(Tail(k), seed)) % P

\* the sum over the entries of coefficient * product of the key's cells
MonomialSum(ms, seed) ==
    SumFn([k \in DOMAIN ms |-> (ValueFor(ms[k], seed) * KeyValue(k, seed)) % P])

\* a key with one more variable, put at its place in the order of variables
RECURSIVE InsertVariable(_, _)
InsertVariable(v, k) ==
    IF Len(k) = 0 THEN <<v>>
    ELSE IF VariableOrd(v) <= VariableOrd(Head(k)) THEN <<v>> \o k
    ELSE <<Head(k)>> \o InsertVariable(v, Tail(k))

\* the variables of a sequence in sorted order
RECURSIVE SortKey(_)
SortKey(k) == IF Len(k) = 0 THEN <<>> ELSE InsertVariable(Head(k), SortKey(Tail(k)))

\* the value of the coefficient of key k in the map ms, 0 for an absent key
CoefficientValue(ms, k, seed) == IF k \in DOMAIN ms THEN ValueFor(ms[k], seed) ELSE 0

\* ret is the key-wise merge of e1 and e2: the keys of both, the coefficient
\* of a key being the sum (the difference for Sub) of its coefficients
IsMerge(ret, e1, e2, tag) ==
    /\ DOMAIN ret = DOMAIN e1 \cup DOMAIN e2
    /\ \A k \in DOMAIN ret : \A seed \in Seeds :
        ValueFor(ret[k], seed) =
            IF tag = "Add"
            THEN (CoefficientValue(e1, k, seed) + CoefficientValue(e2, k, seed)) % P
            ELSE (CoefficientValue(e1, k, seed) - CoefficientValue(e2, k, seed)) % P

\* ret is the convolution of e1 and e2: the keys are the sorted concatenations
\* of a key of each, the coefficient of a key being the sum of the products of
\* the coefficients of the pairs that give it
IsConvolution(ret, e1, e2) ==
    /\ DOMAIN ret = {SortKey(k1 \o k2) : k1 \in DOMAIN e1, k2 \in DOMAIN e2}
    /\ \A k \in DOMAIN ret : \A seed \in Seeds :
        ValueFor(ret[k], seed) =
            SumFn([pr \in {q \in (DOMAIN e1) \X (DOMAIN e2) : SortKey(q[1] \o q[2]) = k} |->
                     (ValueFor(e1[pr[1]], seed) * ValueFor(e2[pr[2]], seed)) % P])

\* the expression is Cell(a) * Cell(b) + Cell(a) * Cell(b)
IsDoubledProduct(e) ==
    /\ e[1] = "Add" /\ e[2] = e[3]
    /\ e[2][1] = "Mul" /\ e[2][2][1] = "Cell" /\ e[2][3][1] = "Cell"

\* C5: monomials(a + b) and monomials(a - b) are the key-wise merge of the
\* expansions of a and b, monomials(a * b) is their convolution with sorted
\* keys, the sum of coefficient * cells over the entries has the value of the
\* expression, and Cell(a)*Cell(b) + Cell(a)*Cell(b) expands to the single key
\* [a, b] with the coefficient Add(Constant(1), Constant(1)).
MonomialsExpansion ==
    call.fn = "monomials" =>
        /\ \A seed \in Seeds : MonomialSum(call.ret, seed) = ValueFor(expr, seed)
        /\ expr[1] \in {"Add", "Sub"} =>
             \E e1 \in monomials(expr[2]), e2 \in monomials(expr[3]) :
                IsMerge(call.ret, e1, e2, expr[1])
        /\ expr[1] = "Mul" =>
             \E e1 \in monomials(expr[2]), e2 \in monomials(expr[3]) :
                IsConvolution(call.ret, e1, e2)
        /\ IsDoubledProduct(expr) =>
             /\ DOMAIN call.ret =
                  {SortKey(<<Variable(expr[2][2][2], expr[2][2][3]),
                             Variable(expr[2][3][2], expr[2][3][3])>>)}
             /\ \A k \in DOMAIN call.ret :
                  call.ret[k] = <<"Add", Constant(1), Constant(1)>>

\* Cell(w1) * Cell(w0) + Cell(w1) * Cell(w0) has been expanded: its one key is
\* the sorted [w0, w1]
MonomialsScenario ==
    /\ call.fn = "monomials"
    /\ IsDoubledProduct(expr)
    /\ expr[2][2] = <<"Cell", Witness(1), Curr>>
    /\ expr[2][3] = <<"Cell", Witness(0), Curr>>
    /\ DOMAIN call.ret = {<<Variable(Witness(0), Curr), Variable(Witness(1), Curr)>>}

\* the value of constant_term + sum of index_terms[col] * Cell(col, Curr)
RECURSIVE IndexTermsValue(_, _)
IndexTermsValue(it, seed) ==
    IF Len(it) = 0 THEN 0
    ELSE (ValueFor(Head(it)[2], seed) * ValueFor(Cell(Variable(Head(it)[1], Curr)), seed)
          + IndexTermsValue(Tail(it), seed)) % P

LinearizationValue(lin, seed) ==
    (ValueFor(lin.constant_term, seed) + IndexTermsValue(lin.index_terms, seed)) % P

\* C3: when linearize succeeds, the constant term plus the sum over the index
\* terms of coefficient * Cell(col, Curr) has the value of the expression,
\* for every value of the challenges and of the cells.
LinearizePreservesValue ==
    (call.fn = "linearize" /\ call.ret[1] = "Ok") =>
        \A seed \in Seeds : LinearizationValue(call.ret[2], seed) = ValueFor(expr, seed)

\* a linearization with an index term whose coefficient holds an evaluated
\* cell, and a constant term
LinearizeScenario ==
    /\ call.fn = "linearize" /\ call.ret[1] = "Ok"
    /\ call.evaluated # {}
    /\ call.ret[2].constant_term # Constant(0)
    /\ \E j \in 1 .. Len(call.ret[2].index_terms) :
         \E n \in Nodes(call.ret[2].index_terms[j][2]) : n[1] = "Cell"

\* the keys of the monomials of an expression
RECURSIVE MonomialKeys(_)
MonomialKeys(e) ==
    CASE e[1] = "Cell" -> {<<Variable(e[2], e[3])>>}
      [] e[1] \in {"Add", "Sub"} -> MonomialKeys(e[2]) \cup MonomialKeys(e[3])
      [] e[1] = "Mul" ->
            {SortKey(k1 \o k2) : k1 \in MonomialKeys(e[2]), k2 \in MonomialKeys(e[3])}
      [] OTHER -> {<<>>}

\* the variables of a key whose column is not in S, with their multiplicity
UnevaluatedOf(k, S) == SelectSeq(k, LAMBDA v : v[1] \notin S)

\* some monomial has more than one variable whose column is not in S
TooManyUnevaluated(e, S) == \E k \in MonomialKeys(e) : Len(UnevaluatedOf(k, S)) > 1

\* some monomial has exactly one such variable, at the row Next
NeedsNextRow(e, S) ==
    \E k \in MonomialKeys(e) :
        /\ Len(UnevaluatedOf(k, S)) = 1
        /\ UnevaluatedOf(k, S)[1][2] = Next_

\* the expression is Cell(a) * Cell(b)
IsCellProduct(e) == e[1] = "Mul" /\ e[2][1] = "Cell" /\ e[3][1] = "Cell"

\* linearize(Cell(a) * Cell(b), {}) fails; with only a's column evaluated and
\* b at the row Curr it succeeds with index_terms = [(b.col, Cell(a))]
CellProductExample ==
    (call.fn = "linearize" /\ IsCellProduct(expr)) =>
        /\ call.evaluated = {} => call.ret[1] = "Err"
        /\ (call.evaluated = {expr[2][2]} /\ expr[3][2] # expr[2][2] /\ expr[3][3] = Curr) =>
             /\ call.ret[1] = "Ok"
             /\ call.ret[2].index_terms = <<<<expr[3][2], expr[2]>>>>

\* C4 as stated: linearize fails with "Linearization failed" when a monomial
\* has more than one unevaluated variable, with the "next" row error when a
\* monomial has exactly one unevaluated variable and it is at the row Next,
\* and succeeds otherwise.
LinearizeErrors ==
    call.fn = "linearize" =>
        /\ TooManyUnevaluated(expr, call.evaluated) =>
             call.ret = <<"Err", "Linearization failed">>
        /\ NeedsNextRow(expr, call.evaluated) =>
             call.ret = <<"Err", "Linearization failed (needed polynomial value at \"next\" row)">>
        /\ (~TooManyUnevaluated(expr, call.evaluated) /\ ~NeedsNextRow(expr, call.evaluated)) =>
             call.ret[1] = "Ok"
        /\ CellProductExample

\* C4 amended: linearize succeeds exactly when no monomial has more than one
\* unevaluated variable or a single unevaluated variable at the row Next; it
\* fails with "Linearization failed" only when some monomial has more than
\* one, with the "next" row error only when some monomial has exactly one at
\* the row Next, and with that error when only one of the two is the case.
LinearizeErrorOfSomeOffendingMonomial ==
    call.fn = "linearize" =>
        /\ call.ret[1] = "Ok" <=>
             (~TooManyUnevaluated(expr, call.evaluated) /\ ~NeedsNextRow(expr, call.evaluated))
        /\ call.ret = <<"Err", "Linearization failed">> =>
             TooManyUnevaluated(expr, call.evaluated)
        /\ call.ret = <<"Err", "Linearization failed (needed polynomial value at \"next\" row)">> =>
             NeedsNextRow(expr, call.evaluated)
        /\ call.ret[1] = "Err" =>
             call.ret[2] \in {"Linearization failed",
                              "Linearization failed (needed polynomial value at \"next\" row)"}
        /\ CellProductExample

\* a monomial with two unevaluated variables and one with a single unevaluated
\* variable at the row Next: the "next" row error has been returned
LinearizeBothOffend ==
    /\ call.fn = "linearize"
    /\ TooManyUnevaluated(expr, call.evaluated)
    /\ NeedsNextRow(expr, call.evaluated)
    /\ call.ret = <<"Err", "Linearization failed (needed polynomial value at \"next\" row)">>

-----------------------------------------------------------------------------
(* SpecLagrange: calls of unnormalized_lagrange_evals.                     *)

InitLagrange == ExprIdle /\ ProverIdle

\* a call of unnormalized_lagrange_evals for a basis index below |H|
UnnormalizedLagrangeEvals ==
    /\ call = NoCall
    /\ \E n \in DomainSizes, res_domain \in {D1, D4, D8}, l0 \in F :
       \E i \in 0 .. (n - 1) :
        call' = [fn |-> "unnormalized_lagrange_evals", l0_1 |-> l0, i |-> i,
                 res_domain |-> res_domain, d1 |-> n,
                 ret |-> unnormalized_lagrange_evals(l0, i, res_domain, env_of(n, 1, {}))]
    /\ UNCHANGED <<pool, expr, pc, fq_sponge, fr_sponge, prover>>

SpecLagrange == InitLagrange /\ [][UnnormalizedLagrangeEvals]_vars

\* the vector the basis polynomial l_i has over H_k: omega^(-i) * l0_1 at the
\* index k*i, 0 at the other indices k*q, and ((g^n)^r - 1) / (omega^q * g^r -
\* omega^i) at the index k*q + r with 0 < r < k
LagrangeVector(l0, i, k, n) ==
    LET omega == group_gen(n)
        g == group_gen(k * n)
    IN
    [j \in 0 .. (k * n - 1) |->
        LET q == j \div k
            r == j % k
        IN
        IF r = 0
        THEN IF q = i THEN (FInv(FPow(omega, i)) * l0) % P ELSE 0
        ELSE ((FPow(FPow(g, n), r) - 1 + P)
              * FInv((FPow(omega, q) * FPow(g, r) - FPow(omega, i) + P * P) % P)) % P]

\* C2: for every k in {1, 4, 8}, every |H| = n and every i < n the call
\* returns, without aborting, the vector of the values of l_i over H_k.
LagrangeEvalsValues ==
    call.fn = "unnormalized_lagrange_evals" =>
        call.ret = <<"Ok", LagrangeVector(call.l0_1, call.i, call.res_domain, call.d1)>>

\* what the function does: over D4 and D8 it aborts in pows; over D1 it
\* returns l0_1 followed by zeros for i = 0, and 1 followed by zeros for i > 0
LagrangeEvalsOverD1 ==
    call.fn = "unnormalized_lagrange_evals" =>
        IF call.res_domain # D1 THEN call.ret = <<"Panic", "index out of bounds">>
        ELSE call.ret = <<"Ok", [j \in 0 .. (call.d1 - 1) |->
                                    IF j > 0 THEN 0
                                    ELSE IF call.i = 0 THEN call.l0_1 ELSE 1]>>

\* the basis polynomial 1 of a domain of two points has been evaluated over D1
LagrangeSecondBasis ==
    /\ call.fn = "unnormalized_lagrange_evals"
    /\ call.res_domain = D1 /\ call.d1 = 2 /\ call.i = 1 /\ call.l0_1 = 2
    /\ call.ret[1] = "Ok"

-----------------------------------------------------------------------------
(* SpecEvaluations: expressions built with + - * and evaluated over the    *)
(* extended domain their degree asks for.                                  *)

EvaluationsPools ==
    { {Cell(Variable(Witness(0), Curr)), Cell(Variable(Z, Next_)), Constant(3)},
      {Cell(Variable(Witness(1), Curr)), Alpha(1), ZkPolynomial},
      {UnnormalizedLagrangeBasis(0), Beta, Cell(Variable(Z, Curr))},
      {Cell(Variable(Witness(0), Next_)), Gamma, UnnormalizedLagrangeBasis(1)} }

InitEvaluations == InitExpr(EvaluationsPools)

NextEvaluations == Build \/ Evaluations

SpecEvaluations == InitEvaluations /\ [][NextEvaluations]_vars

\* the tree holds a cell at the row Next
RECURSIVE HasNextCell(_)
HasNextCell(e) ==
    IF IsBinary(e) THEN HasNextCell(e[2]) \/ HasNextCell(e[3])
    ELSE e[1] = "Cell" /\ e[3] = Next_

\* the scalar evaluation of the expression of the call at the j-th point of
\* a domain of the given size, a Curr cell valued there and a Next cell at
\* omega times it
EvaluateAtPoint(j, size) ==
    LET x == FPow(group_gen(size), j) IN
    evaluate(expr, call.d1, x, RandomOracles(call.seed), evals_at(call.seed, call.d1, x))

\* the returned vector agrees with the scalar evaluation wherever that has a value
AgreesWithEvaluate ==
    /\ call.ret[1] = "Ok"
    /\ \A j \in DOMAIN call.ret[2] :
        LET r == EvaluateAtPoint(j, VLen(call.ret[2])) IN
        r[1] = "Ok" => call.ret[2][j] = r[2]

\* C1: for an expression whose degree estimate is at most 8 |H|, the j-th
\* entry of evaluations(e, env) is the scalar evaluate(e) at the j-th point x
\* of the chosen domain, a Curr cell valued at x and a Next cell at omega * x.
EvaluationsAgreeWithEvaluate ==
    (call.fn = "evaluations" /\ degree(expr, call.d1) <= 8 * call.d1) => AgreesWithEvaluate

\* the same holds of the expressions with no cell at the row Next and no
\* UnnormalizedLagrangeBasis node
EvaluationsAgreeOnCurrentRow ==
    (/\ call.fn = "evaluations"
     /\ degree(expr, call.d1) <= 8 * call.d1
     /\ ~HasNextCell(expr) /\ ~HasBasis(expr)) => AgreesWithEvaluate

\* a product of a sum with a cell, all at the row Curr, has been evaluated
\* over a domain larger than H
EvaluationsOnExtendedDomain ==
    /\ call.fn = "evaluations"
    /\ call.d1 = 2
    /\ ~HasNextCell(expr) /\ ~HasBasis(expr)
    /\ expr[1] = "Mul" /\ Depth(expr) = 2
    /\ call.ret[1] = "Ok"
    /\ VLen(call.ret[2]) > call.d1

-----------------------------------------------------------------------------
(* SpecProver: ProverProof::create of dlog/plonk-15-wires and of           *)
(* dlog/plonk, statement by statement.  A sponge is the sequence of the    *)
(* operations made on it, <<>> while it has not been created; prover.log   *)
(* is the sequence of the commitments computed and of the random values    *)
(* drawn.  The constraint system's operations, the polynomial division and *)
(* the sponge's outputs are not part of these files: their outcome is a    *)
(* choice of the environment.                                              *)

COLUMNS == 15
PERMUTS == 7

MaxPolySize == 2
MaxQuotSize == 3
MaxChallenge == 2
MaxWitness == 1
MaxPrev == 1

Challenges == 1 .. MaxChallenge

\* a witness column of the given length whose first entry is v0
WitnessColumn(c, len, v0) == [j \in 1 .. len |-> IF c = 0 /\ j = 1 THEN v0 ELSE (c + j) % P]

\* witness: &[Vec<Fr<G>>; COLUMNS], every column of length n but for the
\* column bad, of length len
Witness15(n, bad, len, v0) ==
    [c \in 0 .. (COLUMNS - 1) |-> WitnessColumn(c, IF c = bad THEN len ELSE n, v0)]

Witnesses15(n) ==
    {Witness15(n, bad, len, v0) :
        bad \in 0 .. (COLUMNS - 1), len \in {n - 1, n, n + 1}, v0 \in 0 .. MaxWitness}

\* witness: &Vec<Fr<G>>, the flat witness a, a + b, a + 2b, ...
Witnesses3(n) ==
    {[j \in 1 .. len |-> (a + b * j) % P] :
        len \in {3 * n - 1, 3 * n, 3 * n + 1}, a \in 0 .. MaxWitness, b \in 0 .. MaxWitness}

\* index.cs of the 3-wire prover: sid, the coset shifts r and o, and sigmal,
\* the identity permutation or the one that swaps the wires l and r of row 0
Index3(n, swap) ==
    LET sid == [j \in 0 .. (n - 1) |-> FPow(group_gen(n), j)]
        r == 3
        o == 9
        id == <<sid, [j \in 0 .. (n - 1) |-> FMul(sid[j], r)],
                [j \in 0 .. (n - 1) |-> FMul(sid[j], o)]>>
    IN
    [sid |-> sid, r |-> r, o |-> o,
     sigmal |-> IF swap
                THEN <<[id[1] EXCEPT ![0] = id[2][0]], [id[2] EXCEPT ![0] = id[1][0]], id[3]>>
                ELSE id]

Running(kind, n, witness, index) ==
    [kind |-> kind, n |-> n, witness |-> witness, index |-> index, log |-> <<>>,
     beta |-> 0, gamma |-> 0, z |-> <<>>, p_is_zero |-> FALSE,
     division |-> "not reached", fq_sponge_before_evaluations |-> <<>>,
     prev_challenges |-> <<>>, zeta |-> 0, f_chunked |-> <<>>, t_chunked |-> <<>>,
     ft |-> <<>>, ft_eval1 |-> 0, polynomials |-> <<>>, points |-> <<>>,
     sponge |-> <<>>, ret |-> None]

InitProver == ExprIdle /\ ProverIdle

\* a step of create that only moves on
Goto(label) == pc' = label

\* create returns
Return(r) ==
    /\ pc' = "done"
    /\ prover' = [prover EXCEPT !.ret = r]

At(kind, label) == pc = label /\ prover.kind = kind

\* prev_challenges, each entry given by the number of chunks of its
\* commitment: the k-th has k chunks
PrevChallenges == {[k \in 1 .. m |-> k] : m \in 0 .. MaxPrev}

\* a call of the 15-wires ProverProof::create
Create15 ==
    /\ pc = "idle"
    /\ \E n \in DomainSizes, public \in 0 .. 1,
          max_poly_size \in 1 .. MaxPolySize, max_quot_size \in 1 .. MaxQuotSize :
       \E witness \in Witnesses15(n), prev_challenges \in PrevChallenges :
        prover' = [Running("plonk-15-wires", n, witness,
                           [public |-> public, max_poly_size |-> max_poly_size,
                            max_quot_size |-> max_quot_size])
                     EXCEPT !.prev_challenges = prev_challenges]
    /\ Goto("witness")
    /\ UNCHANGED <<pool, expr, call, fq_sponge, fr_sponge>>

\* the loop over witness.iter() looking at the first column only
witness_first_column_has_len(witness, n) == Len(witness[0]) = n

\* for w in witness.iter() { if w.len() != n { return Err } }
witness_columns_have_len(witness, n) == \A c \in 0 .. (COLUMNS - 1) : Len(witness[c]) = n

WitnessCheck15 ==
    /\ At("plonk-15-wires", "witness")
    /\ IF witness_columns_have_len(prover.witness, prover.n)
       THEN Goto("fq_sponge") /\ UNCHANGED prover
       ELSE Return(Err("WitnessCsInconsistent"))
    /\ UNCHANGED <<pool, expr, call, fq_sponge, fr_sponge>>

\* p = -interpolate(public) is the zero polynomial
p_is_zero(public) == \A j \in 1 .. Len(public) : public[j] = 0

\* EFqSponge::new, the public input polynomial and the handle on thread_rng
NewFqSponge15 ==
    /\ At("plonk-15-wires", "fq_sponge")
    /\ fq_sponge' = <<<<"new">>>>
    /\ prover' = [prover EXCEPT
                    !.p_is_zero = p_is_zero(SubSeq(prover.witness[0], 1, prover.index.public))]
    /\ Goto("w_comm")
    /\ UNCHANGED <<pool, expr, call, fr_sponge>>

\* the commitments to the witness polynomials, each with fresh blinders
CommitWitness15 ==
    /\ At("plonk-15-wires", "w_comm")
    /\ prover' = [prover EXCEPT
                    !.log = @ \o [i \in 1 .. COLUMNS |-> <<"commit", "w", i - 1>>]]
    /\ Goto("absorb_w")
    /\ UNCHANGED <<pool, expr, call, fq_sponge, fr_sponge>>

\* absorb the commitment of p, then the witness commitments in column order
AbsorbWitness15 ==
    /\ At("plonk-15-wires", "absorb_w")
    /\ prover' = [prover EXCEPT !.log = Append(@, <<"commit_non_hiding", "p", 0>>)]
    /\ fq_sponge' = fq_sponge \o <<<<"absorb_g", "p_comm">>>>
                      \o [i \in 1 .. COLUMNS |-> <<"absorb_g", "w_comm", i - 1>>]
    /\ Goto("beta")
    /\ UNCHANGED <<pool, expr, call, fr_sponge>>

\* beta and gamma are squeezed
SqueezeBetaGamma15 ==
    /\ At("plonk-15-wires", "beta")
    /\ \E beta \in Challenges, gamma \in Challenges :
        prover' = [prover EXCEPT !.beta = beta, !.gamma = gamma]
    /\ fq_sponge' = fq_sponge \o <<<<"challenge", "beta">>, <<"challenge", "gamma">>>>
    /\ Goto("z")
    /\ UNCHANGED <<pool, expr, call, fr_sponge>>

\* index.cs.perm_aggreg: the grand product, or the error of a product that
\* does not close
perm_aggreg(closes) == IF closes THEN Ok("z") ELSE Err("ProofCreation")

PermAggreg15 ==
    /\ At("plonk-15-wires", "z")
    /\ \E closes \in BOOLEAN :
        IF IsOk(perm_aggreg(closes))
        THEN Goto("z_comm") /\ UNCHANGED prover
        ELSE Return(perm_aggreg(closes))
    /\ UNCHANGED <<pool, expr, call, fq_sponge, fr_sponge>>

\* commit to z and leave the commitment out of the transcript
CommitZWithoutAbsorb15 ==
    /\ At("plonk-15-wires", "z_comm")
    /\ prover' = [prover EXCEPT !.log = Append(@, <<"commit", "z", 0>>)]
    /\ Goto("alpha")
    /\ UNCHANGED <<pool, expr, call, fq_sponge, fr_sponge>>

\* commit to z and absorb the commitment
CommitZ15 ==
    /\ At("plonk-15-wires", "z_comm")
    /\ prover' = [prover EXCEPT !.log = Append(@, <<"commit", "z", 0>>)]
    /\ fq_sponge' = Append(fq_sponge, <<"absorb_g", "z_comm">>)
    /\ Goto("alpha")
    /\ UNCHANGED <<pool, expr, call, fr_sponge>>

SqueezeAlpha15 ==
    /\ At("plonk-15-wires", "alpha")
    /\ fq_sponge' = Append(fq_sponge, <<"challenge", "alpha">>)
    /\ Goto("t")
    /\ UNCHANGED <<pool, expr, call, prover, fr_sponge>>

\* index.cs.perm_quot: the permutation contribution, or the error of a
\* boundary quotient that does not divide
perm_quot(divides) == IF divides THEN Ok("perm") ELSE Err("PolyDivision")

\* the quotient taken whatever the remainder
quotient_ignoring_remainder(division) ==
    IF division = "None" THEN Err("PolyDivision") ELSE Ok("t")

\* the quotient of the summed contributions by the vanishing polynomial:
\* division is None when it fails, and else has a remainder
quotient(division) ==
    IF division = "None" THEN Err("PolyDivision")
    ELSE IF division # "zero remainder" THEN Err("PolyDivision")
    ELSE Ok("t")

Quotient15 ==
    /\ At("plonk-15-wires", "t")
    /\ \E divides \in BOOLEAN, division \in {"None", "nonzero remainder", "zero remainder"} :
        IF ~IsOk(perm_quot(divides)) THEN Return(perm_quot(divides))
        ELSE IF ~IsOk(quotient(division))
        THEN /\ pc' = "done"
             /\ prover' = [prover EXCEPT !.division = division, !.ret = quotient(division)]
        ELSE /\ Goto("t_comm")
             /\ prover' = [prover EXCEPT !.division = division]
    /\ UNCHANGED <<pool, expr, call, fq_sponge, fr_sponge>>

\* the number of chunks of max_poly_size coefficients of a polynomial
chunks(len, max_poly_size) == (len + max_poly_size - 1) \div max_poly_size

\* commit to t, absorb its chunks and the padding up to max_t_size points.
\* The length of t is not bounded by index.max_quot_size in create: when t_comm
\* has more than max_t_size chunks the subtraction underflows, which aborts
\* on the subtraction in a build with overflow checks and on the allocation
\* of the padding in a build without.
CommitT15 ==
    /\ At("plonk-15-wires", "t_comm")
    /\ \E t_len \in 1 .. MaxQuotSize, overflow_checks \in BOOLEAN :
        LET max_t_size == (prover.index.max_quot_size + prover.index.max_poly_size - 1)
                            \div prover.index.max_poly_size
            len == chunks(t_len, prover.index.max_poly_size)
            absorbed == fq_sponge \o [i \in 1 .. len |-> <<"absorb_g", "t_comm", i - 1>>]
        IN
        IF max_t_size < len
        THEN /\ pc' = "done"
             /\ prover' = [prover EXCEPT
                             !.log = Append(@, <<"commit", "t", 0>>),
                             !.ret = IF overflow_checks
                                     THEN Panic("attempt to subtract with overflow")
                                     ELSE Panic("capacity overflow")]
             /\ fq_sponge' = absorbed
        ELSE /\ prover' = [prover EXCEPT !.log = Append(@, <<"commit", "t", 0>>)]
             /\ fq_sponge' = absorbed
                               \o [i \in 1 .. (max_t_size - len) |-> <<"absorb_g", "dummy">>]
             /\ Goto("zeta")
    /\ UNCHANGED <<pool, expr, call, fr_sponge>>

SqueezeZeta15 ==
    /\ At("plonk-15-wires", "zeta")
    /\ fq_sponge' = Append(fq_sponge, <<"challenge", "zeta">>)
    /\ \E zeta \in Challenges : prover' = [prover EXCEPT !.zeta = zeta]
    /\ Goto("fr_sponge")
    /\ UNCHANGED <<pool, expr, call, fr_sponge>>

\* p_eval: no evaluation of p when p is the zero polynomial, else one at each
\* of the two points
p_eval(is_zero) ==
    IF is_zero THEN <<<<>>, <<>>>> ELSE <<<<"p(zeta)">>, <<"p(zeta_omega)">>>>

\* the Fr-sponge fed with the digest and the evaluations, ft_eval1 left out
fr_sponge_without_ft_eval1(is_zero) ==
    <<<<"new">>, <<"absorb", "digest">>,
      <<"absorb_evaluations", p_eval(is_zero)[1], 0>>,
      <<"absorb_evaluations", p_eval(is_zero)[2], 1>>>>

\* the Fr-sponge before the challenges: created, fed with the digest of the
\* Fq-sponge, then for i in 0..2 with p_eval[i] and chunked_evals[i] in one
\* call of absorb_evaluations, then with ft_eval1
fr_sponge_before_challenges(is_zero) ==
    <<<<"new">>, <<"absorb", "digest">>,
      <<"absorb_evaluations", p_eval(is_zero)[1], 0>>,
      <<"absorb_evaluations", p_eval(is_zero)[2], 1>>,
      <<"absorb", "ft_eval1">>>>

\* ExtendedDensePolynomial::scale: every coefficient multiplied by elm
scale(coeffs, elm) == [k \in DOMAIN coeffs |-> FMul(coeffs[k], elm)]

\* the difference of two polynomials, coefficient by coefficient
poly_sub(a, b) ==
    from_coefficients_slice(
        [k \in 1 .. Max(Len(a), Len(b)) |->
            FSub(IF k <= Len(a) THEN a[k] ELSE 0, IF k <= Len(b) THEN b[k] ELSE 0)])

\* ft = &f_chunked - &t_chunked.scale(zeta_n - 1)
ft_polynomial(f_chunked, t_chunked, zeta_n) ==
    poly_sub(f_chunked, scale(t_chunked, FSub(zeta_n, 1)))

\* the polynomials chunk_polynomial can return for f and for t
ChunkedPolynomials == {<<1, 2>>, <<3>>}

\* the evaluations, ft, the copy of the Fq-sponge and the Fr-sponge
NewFrSponge15 ==
    /\ At("plonk-15-wires", "fr_sponge")
    /\ \E f_chunked \in ChunkedPolynomials, t_chunked \in ChunkedPolynomials :
        LET zeta_n == FPow(prover.zeta, prover.index.max_poly_size)
            zeta_omega == FMul(prover.zeta, group_gen(prover.n))
            ft == ft_polynomial(f_chunked, t_chunked, zeta_n)
        IN prover' = [prover EXCEPT !.fq_sponge_before_evaluations = fq_sponge,
                                    !.f_chunked = f_chunked, !.t_chunked = t_chunked,
                                    !.ft = ft, !.ft_eval1 = eval_polynomial(ft, zeta_omega)]
    /\ fq_sponge' = Append(fq_sponge, <<"digest">>)
    /\ fr_sponge' = fr_sponge_before_challenges(prover.p_is_zero)
    /\ Goto("v")
    /\ UNCHANGED <<pool, expr, call>>

SqueezeVU15 ==
    /\ At("plonk-15-wires", "v")
    /\ fr_sponge' = fr_sponge \o <<<<"challenge", "v">>, <<"challenge", "u">>>>
    /\ Goto("open")
    /\ UNCHANGED <<pool, expr, call, prover, fq_sponge>>

\* non_hiding(n): a blinding commitment of n zeros
non_hiding(n) == <<"non_hiding", n>>

\* the blinding of ft: blinding_f - (zeta_n - 1) * blinding_t, blinding_f zero
blinding_ft(zeta_n, blinding_t) == <<"unshifted", FSub(0, FMul(FSub(zeta_n, 1), blinding_t))>>

\* the list with the witness polynomials after z
opening_polynomials_z_first(prev_challenges, blinding) ==
    [k \in 1 .. Len(prev_challenges) |-> <<<<"b_poly", k - 1>>, None, non_hiding(prev_challenges[k])>>]
        \o <<<<<<"p", 0>>, None, non_hiding(1)>>>>
        \o <<<<<<"z", 0>>, None, <<"z_comm.1", 0>>>>>>
        \o [i \in 1 .. COLUMNS |-> <<<<"w", i - 1>>, None, <<"w_comm.1", i - 1>>>>]
        \o [i \in 1 .. (PERMUTS - 1) |-> <<<<"sigmam", i - 1>>, None, non_hiding(1)>>]
        \o <<<<<<"ft", 0>>, None, blinding>>>>

\* polynomials: the (polynomial, shift, blinding) triples handed to open;
\* prev_challenges[k] is the number of chunks of the k-th commitment
opening_polynomials(prev_challenges, blinding) ==
    [k \in 1 .. Len(prev_challenges) |-> <<<<"b_poly", k - 1>>, None, non_hiding(prev_challenges[k])>>]
        \o <<<<<<"p", 0>>, None, non_hiding(1)>>>>
        \o [i \in 1 .. COLUMNS |-> <<<<"w", i - 1>>, None, <<"w_comm.1", i - 1>>>>]
        \o <<<<<<"z", 0>>, None, <<"z_comm.1", 0>>>>>>
        \o [i \in 1 .. (PERMUTS - 1) |-> <<<<"sigmam", i - 1>>, None, non_hiding(1)>>]
        \o <<<<<<"ft", 0>>, None, blinding>>>>

\* the values t_comm.1.chunk_blinding(zeta_n) can take
ChunkBlindings == 1 .. 2

\* the opening mistaken to be given the Fq-sponge itself, not its copy
Open15WithLiveSponge ==
    /\ At("plonk-15-wires", "open")
    /\ pc' = "done"
    /\ \E blinding_t \in ChunkBlindings :
        LET zeta_n == FPow(prover.zeta, prover.index.max_poly_size)
            zeta_omega == FMul(prover.zeta, group_gen(prover.n))
        IN prover' = [prover EXCEPT
                        !.log = Append(@, <<"open", "proof", blinding_t>>),
                        !.polynomials = opening_polynomials(prover.prev_challenges,
                                                            blinding_ft(zeta_n, blinding_t)),
                        !.points = <<prover.zeta, zeta_omega>>,
                        !.sponge = fq_sponge,
                        !.ret = Ok("ProverProof")]
    /\ UNCHANGED <<pool, expr, call, fq_sponge, fr_sponge>>

\* the opening proof over the copy of the Fq-sponge (prover.sponge is the
\* sponge argument of open), and the proof returned
Open15 ==
    /\ At("plonk-15-wires", "open")
    /\ pc' = "done"
    /\ \E blinding_t \in ChunkBlindings :
        LET zeta_n == FPow(prover.zeta, prover.index.max_poly_size)
            zeta_omega == FMul(prover.zeta, group_gen(prover.n))
        IN prover' = [prover EXCEPT
                        !.log = Append(@, <<"open", "proof", blinding_t>>),
                        !.polynomials = opening_polynomials(prover.prev_challenges,
                                                            blinding_ft(zeta_n, blinding_t)),
                        !.points = <<prover.zeta, zeta_omega>>,
                        !.sponge = prover.fq_sponge_before_evaluations,
                        !.ret = Ok("ProverProof")]
    /\ UNCHANGED <<pool, expr, call, fq_sponge, fr_sponge>>

\* a call of the 3-wire ProverProof::create
Create3 ==
    /\ pc = "idle"
    /\ \E n \in DomainSizes, public \in 0 .. 1, swap \in BOOLEAN :
       \E witness \in Witnesses3(n) :
        prover' = Running("plonk", n, witness, [public |-> public] @@ Index3(n, swap))
    /\ Goto("witness")
    /\ UNCHANGED <<pool, expr, call, fq_sponge, fr_sponge>>

\* if witness.len() != 3*n { return Err }
WitnessCheck3 ==
    /\ At("plonk", "witness")
    /\ IF Len(prover.witness) # 3 * prover.n
       THEN Return(Err("WitnessCsInconsistent"))
       ELSE Goto("fq_sponge") /\ UNCHANGED prover
    /\ UNCHANGED <<pool, expr, call, fq_sponge, fr_sponge>>

\* RandomOracles::zero, EFqSponge::new and the public input polynomial
NewFqSponge3 ==
    /\ At("plonk", "fq_sponge")
    /\ fq_sponge' = <<<<"new">>>>
    /\ prover' = [prover EXCEPT
                    !.p_is_zero = p_is_zero(SubSeq(prover.witness, 1, prover.index.public))]
    /\ Goto("w_comm")
    /\ UNCHANGED <<pool, expr, call, fr_sponge>>

\* l, r, o, each blinded with a random multiple of the vanishing polynomial,
\* and their commitments
CommitWires3 ==
    /\ At("plonk", "w_comm")
    /\ prover' = [prover EXCEPT
                    !.log = @ \o <<<<"rand", "l", 0>>, <<"rand", "r", 0>>, <<"rand", "o", 0>>,
                                   <<"commit", "l", 0>>, <<"commit", "r", 0>>,
                                   <<"commit", "o", 0>>>>]
    /\ Goto("absorb_w")
    /\ UNCHANGED <<pool, expr, call, fq_sponge, fr_sponge>>

AbsorbWires3 ==
    /\ At("plonk", "absorb_w")
    /\ fq_sponge' = fq_sponge \o <<<<"absorb_fr", "public">>, <<"absorb_g", "l_comm">>,
                                   <<"absorb_g", "r_comm">>, <<"absorb_g", "o_comm">>>>
    /\ Goto("beta")
    /\ UNCHANGED <<pool, expr, call, prover, fr_sponge>>

SqueezeBetaGamma3 ==
    /\ At("plonk", "beta")
    /\ \E beta \in Challenges, gamma \in Challenges :
        prover' = [prover EXCEPT !.beta = beta, !.gamma = gamma]
    /\ fq_sponge' = fq_sponge \o <<<<"challenge", "beta">>, <<"challenge", "gamma">>>>
    /\ Goto("z")
    /\ UNCHANGED <<pool, expr, call, fr_sponge>>

\* the product over the three wires of witness + shifted * beta + gamma at row
\* j, shifted[c] being the value the wire c carries there
wires_product(witness, n, j, shifted, beta, gamma) ==
    FMul(FMul(FAdd(FAdd(witness[j + 1], FMul(shifted[1], beta)), gamma),
              FAdd(FAdd(witness[j + n + 1], FMul(shifted[2], beta)), gamma)),
         FAdd(FAdd(witness[j + 2 * n + 1], FMul(shifted[3], beta)), gamma))

\* the second loop over z: z[j+1] *= z[j] * numerator of row j
RECURSIVE grand_product_loop(_, _, _, _, _, _, _)
grand_product_loop(z, j, witness, index, n, beta, gamma) ==
    IF j = n THEN z
    ELSE LET sid == index.sid[j]
             num == wires_product(witness, n, j,
                                  <<sid, FMul(sid, index.r), FMul(sid, index.o)>>, beta, gamma)
         IN grand_product_loop([z EXCEPT ![j + 1] = FMul(@, FMul(z[j], num))],
                               j + 1, witness, index, n, beta, gamma)

\* the permutation vector with the denominators left as they are
grand_product_not_inverted(witness, index, n, beta, gamma) ==
    LET den == [j \in 0 .. n |->
                  IF j = 0 THEN 1
                  ELSE wires_product(witness, n, j - 1,
                                     <<index.sigmal[1][j - 1], index.sigmal[2][j - 1],
                                       index.sigmal[3][j - 1]>>, beta, gamma)]
    IN grand_product_loop(den, 0, witness, index, n, beta, gamma)

\* the permutation vector z of n + 1 entries: the denominators of the rows,
\* inverted together, then multiplied up
grand_product(witness, index, n, beta, gamma) ==
    LET den == [j \in 0 .. n |->
                  IF j = 0 THEN 1
                  ELSE wires_product(witness, n, j - 1,
                                     <<index.sigmal[1][j - 1], index.sigmal[2][j - 1],
                                       index.sigmal[3][j - 1]>>, beta, gamma)]
        inv == [j \in 0 .. n |-> IF j = 0 THEN 1 ELSE batch_inversion(den)[j]]
    IN grand_product_loop(inv, 0, witness, index, n, beta, gamma)

\* z is computed; create returns when its last entry is not one
GrandProduct3 ==
    /\ At("plonk", "z")
    /\ LET z == grand_product(prover.witness, prover.index, prover.n, prover.beta,
                              prover.gamma)
       IN IF z[prover.n] # 1
          THEN /\ pc' = "done"
               /\ prover' = [prover EXCEPT !.z = z, !.ret = Err("ProofCreation")]
          ELSE /\ Goto("z_comm")
               /\ prover' = [prover EXCEPT !.z = z]
    /\ UNCHANGED <<pool, expr, call, fq_sponge, fr_sponge>>

\* z is blinded and committed, its commitment absorbed
CommitZ3 ==
    /\ At("plonk", "z_comm")
    /\ prover' = [prover EXCEPT !.log = @ \o <<<<"rand", "z", 0>>, <<"commit", "z", 0>>>>]
    /\ fq_sponge' = Append(fq_sponge, <<"absorb_g", "z_comm">>)
    /\ Goto("alpha")
    /\ UNCHANGED <<pool, expr, call, fr_sponge>>

SqueezeAlpha3 ==
    /\ At("plonk", "alpha")
    /\ fq_sponge' = Append(fq_sponge, <<"challenge", "alpha">>)
    /\ Goto("t")
    /\ UNCHANGED <<pool, expr, call, prover, fr_sponge>>

\* the boundary quotient t4 of z - 1 by x - 1, then the quotient by the
\* vanishing polynomial
Quotient3 ==
    /\ At("plonk", "t")
    /\ \E boundary \in {"None", "nonzero remainder", "zero remainder"},
          division \in {"None", "nonzero remainder", "zero remainder"} :
        IF ~IsOk(quotient(boundary)) THEN Return(quotient(boundary))
        ELSE IF ~IsOk(quotient(division))
        THEN /\ pc' = "done"
             /\ prover' = [prover EXCEPT !.division = division, !.ret = quotient(division)]
        ELSE /\ Goto("t_comm")
             /\ prover' = [prover EXCEPT !.division = division]
    /\ UNCHANGED <<pool, expr, call, fq_sponge, fr_sponge>>

CommitT3 ==
    /\ At("plonk", "t_comm")
    /\ prover' = [prover EXCEPT !.log = Append(@, <<"commit", "t", 0>>)]
    /\ fq_sponge' = Append(fq_sponge, <<"absorb_g", "t_comm">>)
    /\ Goto("zeta")
    /\ UNCHANGED <<pool, expr, call, fr_sponge>>

SqueezeZeta3 ==
    /\ At("plonk", "zeta")
    /\ fq_sponge' = Append(fq_sponge, <<"challenge", "zeta">>)
    /\ Goto("v")
    /\ UNCHANGED <<pool, expr, call, prover, fr_sponge>>

\* the evaluations and the linearization polynomial, then v and u from the
\* Fq-sponge, then the copy of the sponge
SqueezeVU3 ==
    /\ At("plonk", "v")
    /\ fq_sponge' = fq_sponge \o <<<<"challenge", "v">>, <<"challenge", "u">>>>
    /\ prover' = [prover EXCEPT !.fq_sponge_before_evaluations = fq_sponge']
    /\ Goto("open")
    /\ UNCHANGED <<pool, expr, call, fr_sponge>>

Open3 ==
    /\ At("plonk", "open")
    /\ pc' = "done"
    /\ prover' = [prover EXCEPT !.log = Append(@, <<"open", "proof", 0>>),
                                !.sponge = prover.fq_sponge_before_evaluations,
                                !.ret = Ok("ProverProof")]
    /\ UNCHANGED <<pool, expr, call, fq_sponge, fr_sponge>>

NextProver ==
    \/ Create15 \/ WitnessCheck15 \/ NewFqSponge15 \/ CommitWitness15 \/ AbsorbWitness15
    \/ SqueezeBetaGamma15 \/ PermAggreg15 \/ CommitZ15 \/ SqueezeAlpha15 \/ Quotient15
    \/ CommitT15 \/ SqueezeZeta15 \/ NewFrSponge15 \/ SqueezeVU15 \/ Open15
    \/ Create3 \/ WitnessCheck3 \/ NewFqSponge3 \/ CommitWires3 \/ AbsorbWires3
    \/ SqueezeBetaGamma3 \/ GrandProduct3 \/ CommitZ3 \/ SqueezeAlpha3 \/ Quotient3
    \/ CommitT3 \/ SqueezeZeta3 \/ SqueezeVU3 \/ Open3

SpecProver == InitProver /\ [][NextProver]_vars

\* the witness handed to create has not the shape of the constraint system
WitnessShapeWrong ==
    IF prover.kind = "plonk-15-wires"
    THEN \E c \in DOMAIN prover.witness : Len(prover.witness[c]) # prover.n
    ELSE Len(prover.witness) # 3 * prover.n

\* C10: create returns Err(WitnessCsInconsistent) if and only if the witness
\* has not the shape of the constraint system, and with such a witness no
\* sponge is created, no commitment computed, no random value drawn and no
\* challenge squeezed.
WitnessCheckedFirst ==
    pc # "idle" =>
        /\ pc = "done" =>
             (prover.ret = <<"Err", "WitnessCsInconsistent">> <=> WitnessShapeWrong)
        /\ prover.ret = <<"Err", "WitnessCsInconsistent">> => WitnessShapeWrong
        /\ WitnessShapeWrong =>
             /\ fq_sponge = <<>> /\ fr_sponge = <<>>
             /\ prover.log = <<>>
             /\ prover.ret \in {<<"None">>, <<"Err", "WitnessCsInconsistent">>}
             /\ pc \in {"witness", "done"}

\* the 15-wires create has returned the error for a witness whose last
\* column alone is too long
WitnessLastColumnWrong ==
    /\ pc = "done"
    /\ prover.kind = "plonk-15-wires"
    /\ prover.ret = <<"Err", "WitnessCsInconsistent">>
    /\ \A c \in 0 .. (COLUMNS - 2) : Len(prover.witness[c]) = prover.n
    /\ Len(prover.witness[COLUMNS - 1]) = prover.n + 1

-----------------------------------------------------------------------------
(* The transcript of the 15-wires prover.                                  *)

IsPrefix(s, t) == Len(s) <= Len(t) /\ SubSeq(t, 1, Len(s)) = s

\* max_t_size of the index handed to the running create
MaxTSize ==
    (prover.index.max_quot_size + prover.index.max_poly_size - 1)
        \div prover.index.max_poly_size

\* the operations the pipeline makes on the Fq-sponge, in its order, when
\* t_comm has len chunks and is followed by padding identity points
Transcript15(len, padding) ==
    <<<<"new">>, <<"absorb_g", "p_comm">>>>
        \o [i \in 1 .. COLUMNS |-> <<"absorb_g", "w_comm", i - 1>>]
        \o <<<<"challenge", "beta">>, <<"challenge", "gamma">>, <<"absorb_g", "z_comm">>,
             <<"challenge", "alpha">>>>
        \o [i \in 1 .. len |-> <<"absorb_g", "t_comm", i - 1>>]
        \o [i \in 1 .. padding |-> <<"absorb_g", "dummy">>]
        \o <<<<"challenge", "zeta">>>>

\* the positions of the Fq-sponge where op was made
Positions(op) == {i \in 1 .. Len(fq_sponge) : fq_sponge[i] = op}

\* every op of before was made, and before the first op of after
AllBefore(before, after) ==
    \A i \in Positions(after) : \A b \in before : \E k \in 1 .. (i - 1) : fq_sponge[k] = b

\* the Fq-sponge up to the squeeze of zeta
UpToZeta ==
    IF Positions(<<"challenge", "zeta">>) = {} THEN fq_sponge
    ELSE SubSeq(fq_sponge, 1, CHOOSE i \in Positions(<<"challenge", "zeta">>) : TRUE)

\* C11: in every run of the 15-wires create the operations on the Fq-sponge
\* are made in the order of the pipeline with nothing between them: p_comm,
\* the witness commitments in column order, beta, gamma, z_comm, alpha, the
\* chunks of t_comm, the padding, zeta; so beta and gamma come after every
\* witness commitment, alpha after z_comm and zeta after t_comm, and a run
\* that returns a proof has made them all.
FqSpongeOrder15 ==
    (pc # "idle" /\ prover.kind = "plonk-15-wires") =>
        /\ \E len \in 1 .. MaxQuotSize, padding \in 0 .. MaxQuotSize :
            /\ IsPrefix(UpToZeta, Transcript15(len, padding))
            /\ prover.ret = Ok("ProverProof") => UpToZeta = Transcript15(len, padding)
        /\ AllBefore({<<"absorb_g", "p_comm">>}
                        \cup {<<"absorb_g", "w_comm", c>> : c \in 0 .. (COLUMNS - 1)},
                     <<"challenge", "beta">>)
        /\ AllBefore({<<"challenge", "beta">>}, <<"challenge", "gamma">>)
        /\ AllBefore({<<"challenge", "gamma">>, <<"absorb_g", "z_comm">>},
                     <<"challenge", "alpha">>)
        /\ AllBefore({<<"challenge", "alpha">>, <<"absorb_g", "t_comm", 0>>},
                     <<"challenge", "zeta">>)

\* a proof was returned after two chunks of t_comm and one identity point
TranscriptWithPadding ==
    /\ pc = "done" /\ prover.kind = "plonk-15-wires"
    /\ prover.ret = Ok("ProverProof")
    /\ UpToZeta = Transcript15(2, 1)

\* what a call on the Fr-sponge absorbs: absorb_evaluations(p_eval[i],
\* chunked_evals[i]) absorbs the evaluations of p it is handed and the
\* ProofEvaluations at point i
Absorbs(op) ==
    IF op[1] = "absorb" THEN {op[2]}
    ELSE IF op[1] = "absorb_evaluations"
    THEN {op[2][k] : k \in 1 .. Len(op[2])} \cup {IF op[3] = 0 THEN "chunked_evals[0]" ELSE "chunked_evals[1]"}
    ELSE {}

\* the calls on the Fr-sponge that absorb item, and those that squeeze name
AbsorbedAt(item) == {i \in 1 .. Len(fr_sponge) : item \in Absorbs(fr_sponge[i])}
SqueezedAt(name) == {i \in 1 .. Len(fr_sponge) : fr_sponge[i] = <<"challenge", name>>}

\* every call of the set first comes before every call of the set then
Precede(first, then) == \A i \in first, j \in then : i < j

\* C12 as stated: the Fr-sponge is fresh, absorbs the digest, then both
\* evaluations of p when p is not zero (none when it is), then the
\* ProofEvaluations at zeta, then those at zeta * omega, then ft_eval1, and
\* only then gives v, then u.
FrSpongeOrder15 ==
    (pc # "idle" /\ prover.kind = "plonk-15-wires" /\ fr_sponge # <<>>) =>
        /\ fr_sponge[1] = <<"new">>
        /\ Precede(AbsorbedAt("digest"), AbsorbedAt("p(zeta)"))
        /\ Precede(AbsorbedAt("p(zeta)"), AbsorbedAt("p(zeta_omega)"))
        /\ \A i \in AbsorbedAt("p(zeta_omega)"), j \in AbsorbedAt("chunked_evals[0]") :
              i <= j
        /\ Precede(AbsorbedAt("chunked_evals[0]"), AbsorbedAt("chunked_evals[1]"))
        /\ Precede(AbsorbedAt("chunked_evals[1]"), AbsorbedAt("ft_eval1"))
        /\ Precede(AbsorbedAt("ft_eval1"), SqueezedAt("v"))
        /\ Precede(SqueezedAt("v"), SqueezedAt("u"))
        /\ prover.p_is_zero <=> (AbsorbedAt("p(zeta)") \cup AbsorbedAt("p(zeta_omega)") = {})

\* C12, amended: the Fr-sponge is fresh and absorbs the digest of the
\* Fq-sponge; then, for zeta and then for zeta * omega, one call absorbs the
\* evaluation of p at the point (nothing when p is zero) with the
\* ProofEvaluations at the point; then it absorbs ft_eval1, and only then
\* gives v, then u.
FrSpongeOrderByPoint15 ==
    (pc # "idle" /\ prover.kind = "plonk-15-wires" /\ fr_sponge # <<>>) =>
        /\ fr_sponge[1] = <<"new">>
        /\ AbsorbedAt("digest") = {2}
        /\ AbsorbedAt("chunked_evals[0]") = {3}
        /\ AbsorbedAt("chunked_evals[1]") = {4}
        /\ AbsorbedAt("p(zeta)") = IF prover.p_is_zero THEN {} ELSE {3}
        /\ AbsorbedAt("p(zeta_omega)") = IF prover.p_is_zero THEN {} ELSE {4}
        /\ AbsorbedAt("ft_eval1") = {5}
        /\ SqueezedAt("v") \subseteq {6} /\ SqueezedAt("u") \subseteq {7}
        /\ SqueezedAt("u") # {} => SqueezedAt("v") # {}
        /\ Len(fr_sponge) \in {5, 7}
        /\ pc \in {"open", "done"} => Len(fr_sponge) = 7

\* a proof was returned for a public input that is not zero
FrSpongeWithPublicInput ==
    /\ pc = "done" /\ prover.kind = "plonk-15-wires"
    /\ prover.ret = Ok("ProverProof")
    /\ ~prover.p_is_zero
    /\ SqueezedAt("u") = {7}

\* the curve points absorbed into the Fq-sponge after the squeeze of alpha
PointsAfterAlpha ==
    Cardinality({i \in 1 .. Len(fq_sponge) :
        /\ fq_sponge[i][1] = "absorb_g"
        /\ \E k \in 1 .. (i - 1) : fq_sponge[k] = <<"challenge", "alpha">>})

\* the chunks of t_comm absorbed into the Fq-sponge
TCommChunks ==
    Cardinality({i \in 1 .. Len(fq_sponge) :
        fq_sponge[i][1] = "absorb_g" /\ fq_sponge[i][2] = "t_comm"})

\* t has been committed in the running 15-wires create
TCommitted ==
    /\ pc # "idle" /\ prover.kind = "plonk-15-wires"
    /\ \E i \in 1 .. Len(prover.log) : prover.log[i] = <<"commit", "t", 0>>

\* C13 as stated: once t is committed, whatever the number of chunks of
\* t_comm, create does not abort on the padding, and exactly max_t_size curve
\* points are absorbed between the squeeze of alpha and the squeeze of zeta.
PaddedToMaxTSize ==
    TCommitted =>
        /\ prover.ret[1] # "Panic"
        /\ TCommChunks <= MaxTSize
        /\ Positions(<<"challenge", "zeta">>) # {} => PointsAfterAlpha = MaxTSize

\* C13, what the code does: when t_comm has at most max_t_size chunks, exactly
\* max_t_size points are absorbed between alpha and zeta; when it has more,
\* create aborts on the padding after absorbing the chunks, and zeta is never
\* squeezed.
PaddedWhenChunksFit ==
    TCommitted =>
        IF TCommChunks <= MaxTSize
        THEN /\ prover.ret[1] # "Panic"
             /\ PointsAfterAlpha = MaxTSize
        ELSE /\ pc = "done"
             /\ prover.ret \in {Panic("attempt to subtract with overflow"),
                                Panic("capacity overflow")}
             /\ PointsAfterAlpha = TCommChunks
             /\ Positions(<<"challenge", "zeta">>) = {}

\* create has aborted on the padding: t_comm has two chunks, max_t_size is one
PaddingUnderflow ==
    /\ TCommitted
    /\ MaxTSize = 1 /\ TCommChunks = 2
    /\ prover.ret[1] = "Panic"

-----------------------------------------------------------------------------
(* SpecChunks: utils/dense_polynomial.rs, a polynomial cut into chunks and *)
(* the chunks evaluated, as test_chunk does.                               *)

MaxCoeffs == 4
MaxChunkSize == 3
MaxPoint == 3

\* self.coeffs.chunks(chunk_size): slices of chunk_size coefficients, the last
\* one shorter when the length is not a multiple of chunk_size
slice_chunks(coeffs, chunk_size) ==
    [i \in 1 .. ((Len(coeffs) + chunk_size - 1) \div chunk_size) |->
        SubSeq(coeffs, (i - 1) * chunk_size + 1,
               IF i * chunk_size < Len(coeffs) THEN i * chunk_size ELSE Len(coeffs))]

\* the chunks without the last, shorter one
to_chunked_polynomial_exact(coeffs, chunk_size) ==
    [polys |-> [i \in 1 .. (Len(coeffs) \div chunk_size) |->
                  from_coefficients_slice(slice_chunks(coeffs, chunk_size)[i])],
     size |-> chunk_size]

\* ExtendedDensePolynomial::to_chunked_polynomial
to_chunked_polynomial(coeffs, chunk_size) ==
    [polys |-> [i \in DOMAIN slice_chunks(coeffs, chunk_size) |->
                  from_coefficients_slice(slice_chunks(coeffs, chunk_size)[i])],
     size |-> chunk_size]

\* ChunkedPolynomial::evaluate_chunks: every chunk evaluated at the point
evaluate_chunks(chunked, x) ==
    [i \in DOMAIN chunked.polys |-> eval_polynomial(chunked.polys[i], x)]

\* the coefficient lists of the polynomials of at most MaxCoeffs coefficients
\* over 0 .. 2, and 1 + x + ... + x^7 of test_chunk
Polynomials ==
    {c \in SeqsUpTo(0 .. 2, MaxCoeffs) : from_coefficients_slice(c) = c}
        \cup {[i \in 1 .. 8 |-> 1]}

InitChunks == ExprIdle /\ ProverIdle

\* f.to_chunked_polynomial(chunk_size).evaluate_chunks(x)
EvaluateChunks ==
    /\ call = NoCall
    /\ \E coeffs \in Polynomials, chunk_size \in 1 .. MaxChunkSize, x \in 0 .. MaxPoint :
        call' = [fn |-> "evaluate_chunks", coeffs |-> coeffs, chunk_size |-> chunk_size,
                 x |-> x,
                 chunked |-> to_chunked_polynomial(coeffs, chunk_size),
                 ret |-> evaluate_chunks(to_chunked_polynomial(coeffs, chunk_size), x)]
    /\ UNCHANGED <<pool, expr, pc, fq_sponge, fr_sponge, prover>>

SpecChunks == InitChunks /\ [][EvaluateChunks]_vars

\* the sum of c[k] * x^k, term by term
RECURSIVE TermSum(_, _, _)
TermSum(c, x, k) ==
    IF k = 0 THEN 0 ELSE (TermSum(c, x, k - 1) + c[k] * FPow(x, k - 1)) % P

\* C14: the i-th chunk of f.to_chunked_polynomial(s) evaluates at x to the sum
\* over j < s of c[i*s + j] * x^j, eval_polynomial of the chunk evaluations at
\* x^s is f(x), eval_polynomial(coeffs, x) is the sum of coeffs[i] * x^i, and
\* the chunks of size 2 of 1 + x + ... + x^7 all evaluate to 3 at 2.
ChunkedEvaluationRoundTrip ==
    call.fn = "evaluate_chunks" =>
        LET c == call.coeffs
            s == call.chunk_size
            x == call.x
        IN
        /\ Len(call.ret) = (Len(c) + s - 1) \div s
        /\ call.chunked.size = s
        /\ \A i \in 0 .. (Len(call.ret) - 1) :
              call.ret[i + 1] =
                TermSum([j \in 1 .. s |-> IF i * s + j <= Len(c) THEN c[i * s + j] ELSE 0],
                        x, s)
        /\ eval_polynomial(call.ret, FPow(x, s)) = TermSum(c, x, Len(c))
        /\ eval_polynomial(c, x) = TermSum(c, x, Len(c))
        /\ eval_polynomial(<<>>, x) = 0
        /\ (c = [i \in 1 .. 8 |-> 1] /\ s = 2 /\ x = 2) => call.ret = <<3, 3, 3, 3>>

\* 1 + x + ... + x^7 has been cut into chunks of two coefficients and
\* evaluated at 2
TestChunk ==
    /\ call.fn = "evaluate_chunks"
    /\ call.coeffs = [i \in 1 .. 8 |-> 1] /\ call.chunk_size = 2 /\ call.x = 2
    /\ Len(call.ret) = 4

-----------------------------------------------------------------------------
(* The grand product of the 3-wire prover.                                 *)

\* the wire col (0, 1, 2) of row j of the flat witness of the running create
WireValue(col, j) == prover.witness[j + col * prover.n + 1]

\* the identity permutation of row j: sid, sid * r, sid * o
IdentityOf(col, j) ==
    LET sid == prover.index.sid[j] IN
    IF col = 0 THEN sid
    ELSE IF col = 1 THEN (sid * prover.index.r) % P ELSE (sid * prover.index.o) % P

\* the product over the wires of w + beta * perm + gamma at row j
RowProduct(j, perm(_, _)) ==
    LET term(col) == (WireValue(col, j) + prover.beta * perm(col, j) + prover.gamma) % P
    IN (term(0) * term(1) * term(2)) % P

Numerator(j) == RowProduct(j, IdentityOf)

Denominator(j) == LET sigma(col, row) == prover.index.sigmal[col + 1][row]
                  IN RowProduct(j, sigma)

\* the 3-wire create has computed z
GrandProductComputed == pc # "idle" /\ prover.kind = "plonk" /\ prover.z # <<>>

\* C15: in the 3-wire prover z[0] = 1 and z[j+1] = z[j] * numerator(j) /
\* denominator(j) for j in [0, n), a zero denominator giving z[j+1] = 0;
\* create returns Err(ProofCreation) exactly when z[n] is not 1, which is so
\* whenever a denominator is zero, and then z is not committed, z_comm is not
\* absorbed and alpha is not squeezed.
GrandProductClosesOrFails ==
    /\ (pc # "idle" /\ prover.ret = Err("ProofCreation") /\ prover.kind = "plonk")
          => prover.z # <<>>
    /\ GrandProductComputed =>
        /\ DOMAIN prover.z = 0 .. prover.n
        /\ prover.z[0] = 1
        /\ \A j \in 0 .. (prover.n - 1) :
            IF Denominator(j) = 0 THEN prover.z[j + 1] = 0
            ELSE /\ (prover.z[j + 1] * Denominator(j)) % P
                        = (prover.z[j] * Numerator(j)) % P
                 /\ prover.z[j + 1]
                        = (prover.z[j] * Numerator(j) * FInv(Denominator(j))) % P
        /\ (\E j \in 0 .. (prover.n - 1) : Denominator(j) = 0) => prover.z[prover.n] # 1
        /\ prover.z[prover.n] # 1 <=> prover.ret = Err("ProofCreation")
        /\ prover.z[prover.n] # 1 =>
            /\ pc = "done"
            /\ \A i \in 1 .. Len(prover.log) : prover.log[i][2] # "z"
            /\ Positions(<<"absorb_g", "z_comm">>) = {}
            /\ Positions(<<"challenge", "alpha">>) = {}
        /\ (prover.z[prover.n] = 1 /\ pc = "done") =>
            /\ \E i \in 1 .. Len(prover.log) : prover.log[i] = <<"commit", "z", 0>>
            /\ AllBefore({<<"absorb_g", "z_comm">>}, <<"challenge", "alpha">>)

\* create has returned Err(ProofCreation) for an identity permutation because
\* a denominator is zero
ZeroDenominatorFails ==
    /\ GrandProductComputed /\ pc = "done"
    /\ prover.ret = Err("ProofCreation")
    /\ prover.n = 2
    /\ prover.index.sigmal[1] = prover.index.sid
    /\ \E j \in 0 .. (prover.n - 1) : Denominator(j) = 0

\* a proof was returned for a permutation that swaps two wires of equal value
SwappedWiresClose ==
    /\ GrandProductComputed /\ pc = "done"
    /\ prover.ret = Ok("ProverProof")
    /\ prover.index.sigmal[1] # prover.index.sid

-----------------------------------------------------------------------------
(* The quotient polynomial of both provers.                                *)

\* C16: in both provers, when the division of the summed numerator by the
\* vanishing polynomial fails or leaves a remainder that is not zero, create
\* returns Err(PolyDivision) without committing to t, absorbing t_comm or
\* squeezing zeta; t is committed and a proof returned only after a division
\* with a zero remainder.
PolyDivisionStopsCreate ==
    pc # "idle" =>
        /\ prover.division \in {"None", "nonzero remainder"} =>
            /\ pc = "done"
            /\ prover.ret = Err("PolyDivision")
            /\ \A i \in 1 .. Len(prover.log) : prover.log[i][2] # "t"
            /\ \A i \in 1 .. Len(fq_sponge) :
                  /\ fq_sponge[i] # <<"challenge", "zeta">>
                  /\ fq_sponge[i][1] = "absorb_g" => fq_sponge[i][2] \notin {"t_comm", "dummy"}
        /\ (\E i \in 1 .. Len(prover.log) : prover.log[i][2] = "t")
              => prover.division = "zero remainder"
        /\ Positions(<<"challenge", "zeta">>) # {} => prover.division = "zero remainder"
        /\ prover.ret = Ok("ProverProof") => prover.division = "zero remainder"

\* the 15-wires create has returned Err(PolyDivision) for a remainder that is
\* not zero, after alpha was squeezed
NonzeroRemainderFails ==
    /\ pc = "done" /\ prover.kind = "plonk-15-wires"
    /\ prover.division = "nonzero remainder"
    /\ prover.ret = Err("PolyDivision")
    /\ Positions(<<"challenge", "alpha">>) # {}

-----------------------------------------------------------------------------
(* The opening of the 15-wires prover.                                     *)

\* the 15-wires create has returned a proof
ProofReturned15 ==
    pc = "done" /\ prover.kind = "plonk-15-wires" /\ prover.ret = Ok("ProverProof")

\* zeta^max_poly_size and zeta * omega of the running create
ZetaN == FPow(prover.zeta, prover.index.max_poly_size)
ZetaOmega == (prover.zeta * group_gen(prover.n)) % P

\* the coefficient k (from zero) of a polynomial
Coefficient(poly, k) == IF k < Len(poly) THEN poly[k + 1] ELSE 0

-----------------------------------------------------------------------------
(* The results linearize can return for one expression and one set of      *)
(* evaluated columns, over the iteration orders of its hash maps.          *)

\* the results of the call made, whatever the iteration order
LinearizeOutcomes == linearize(expr, call.evaluated)

\* C18: for a fixed expression and evaluated set every execution of linearize
\* returns the same result: the same error message, or the same constant_term
\* tree and the same index_terms in the same order, whatever the iteration
\* order of the hash maps.
LinearizeDeterministic ==
    call.fn = "linearize" => LinearizeOutcomes = {call.ret}

\* what the executions of one call have in common: they all fail or all
\* succeed, and those that succeed give index_terms over the same columns,
\* one entry per column
LinearizeOutcomesAlike ==
    call.fn = "linearize" =>
        \A r \in LinearizeOutcomes :
            /\ r[1] = call.ret[1]
            /\ IsOk(r) =>
                /\ {r[2].index_terms[j][1] : j \in DOMAIN r[2].index_terms}
                     = {call.ret[2].index_terms[j][1] : j \in DOMAIN call.ret[2].index_terms}
                /\ Len(r[2].index_terms) = Len(call.ret[2].index_terms)
                /\ \A j, k \in DOMAIN r[2].index_terms :
                      r[2].index_terms[j][1] = r[2].index_terms[k][1] => j = k

\* w0 + w1 has been linearized over no evaluated column: the two columns can
\* come in either order
LinearizeTwoOrders ==
    /\ call.fn = "linearize" /\ call.evaluated = {}
    /\ expr = Add(Cell(Variable(Witness(0), Curr)), Cell(Variable(Witness(1), Curr)))
    /\ IsOk(call.ret)
    /\ Cardinality(LinearizeOutcomes) = 2

-----------------------------------------------------------------------------
(* The row read for a cell by evaluations.                                 *)

\* the expression is made of cells only
RECURSIVE CellsOnly(_)
CellsOnly(e) ==
    IF IsBinary(e) THEN CellsOnly(e[2]) /\ CellsOnly(e[3]) ELSE e[1] = "Cell"

\* the polynomial of the column of the cell e at the point x
ColumnAt(e, x) == eval_polynomial(ColumnPoly(e[2], call.seed), x)

\* C20: whatever the target domain, the value evaluations reads at the
\* index i for Cell(col, Next) is the column polynomial at omega * x_i, x_i
\* the i-th point of the target domain, and for Cell(col, Curr) the column
\* polynomial at x_i: an expression made of cells evaluates at the index i to
\* its value on those readings.
NextRowIsOneRowAhead ==
    (call.fn = "evaluations" /\ CellsOnly(expr) /\ degree(expr, call.d1) <= 8 * call.d1)
        => AgreesWithEvaluate

\* what the code reads for a lone cell, over the target domain D1: at the
\* row Curr the column polynomial at x_i, at the row Next the entry one step
\* further in the D8 vector, the column polynomial at g * x_i with g the
\* generator of D8
NextRowIsOneStepOfD8 ==
    (call.fn = "evaluations" /\ expr[1] = "Cell") =>
        call.ret = Ok([i \in 0 .. (call.d1 - 1) |->
                        ColumnAt(expr, FMul(FPow(group_gen(call.d1), i),
                                            IF expr[3] = Next_ THEN group_gen(8 * call.d1)
                                            ELSE 1))])

\* the cell of z at the next row has been evaluated over a domain of two rows
NextCellRead ==
    /\ call.fn = "evaluations" /\ call.d1 = 2
    /\ expr = Cell(Variable(Z, Next_))
    /\ call.ret[1] = "Ok"
    /\ call.ret[2][0] # ColumnAt(expr, group_gen(2))

-----------------------------------------------------------------------------
(* SpecEvalResult: one call of EvalResult::add, sub or mul.  A Constant    *)
(* is a field element, an Evals is a vector over the target domain, a      *)
(* SubEvals borrows a column of the environment with the tag D8 and the    *)
(* shift of curr_or_next; the column is given over D8 or, the type not     *)
(* fixing its length, over D4.                                             *)

EvalResultOperands(t, n) ==
    {EConstant(2), EConstant(5)}
    \cup {Evals(t, evals_over(ColumnPoly(Witness(0), seed), t * n)) : seed \in Seeds}
    \cup {SubEvals(D8, curr_or_next(row), evals_over(ColumnPoly(Z, seed), len * n)) :
            row \in {Curr, Next_}, seed \in Seeds, len \in {D4, D8}}

InitEvalResult == ExprIdle /\ ProverIdle

\* self.add(other, res_domain), self.sub(..) or self.mul(..)
EvalResultOp ==
    /\ call = NoCall
    /\ \E n \in DomainSizes, t \in {D1, D4, D8}, f \in {"add", "sub", "mul"} :
       \E self \in EvalResultOperands(t, n), other \in EvalResultOperands(t, n) :
        LET res_domain == <<t, get_domain(t, [d1 |-> n])>> IN
        call' = [fn |-> "EvalResult", f |-> f, self |-> self, other |-> other,
                 res_domain |-> res_domain, d1 |-> n,
                 ret |-> CASE f = "add" -> EvalResult_add(self, other, res_domain)
                           [] f = "sub" -> EvalResult_sub(self, other, res_domain)
                           [] f = "mul" -> EvalResult_mul(self, other, res_domain)]
    /\ UNCHANGED <<pool, expr, pc, fq_sponge, fr_sponge, prover>>

SpecEvalResult == InitEvalResult /\ [][EvalResultOp]_vars

\* a SubEvals operand borrows a D8 vector of length 8 |H|
OverD8(x, n) == x[1] = "SubEvals" => (x[2] = D8 /\ VLen(x[4]) = 8 * n)

FieldOp(f, x, y) ==
    CASE f = "add" -> (x + y) % P
      [] f = "sub" -> (x + P - y) % P
      [] f = "mul" -> (x * y) % P

\* what an operand reads at the target index i: a Constant its value, an
\* Evals its entry i, a SubEvals its entry (stride * i + shift) mod len
EntryAt(x, i, t) ==
    CASE x[1] = "Constant" -> x[2]
      [] x[1] = "Evals" -> x[3][i]
      [] x[1] = "SubEvals" -> x[4][((x[2] \div t) * i + x[3]) % VLen(x[4])]

\* Constant(l op r) for two Constants, else the Evals on t of the entries
\* l_i op r_i
Entrywise(f, l, r, res_domain) ==
    IF l[1] = "Constant" /\ r[1] = "Constant"
    THEN <<"Constant", FieldOp(f, l[2], r[2])>>
    ELSE <<"Evals", res_domain[1],
           [i \in 0 .. (res_domain[2] - 1) |->
              FieldOp(f, EntryAt(l, i, res_domain[1]), EntryAt(r, i, res_domain[1]))]>>

\* the call with its operands exchanged
Swapped ==
    CASE call.f = "add" -> EvalResult_add(call.other, call.self, call.res_domain)
      [] call.f = "sub" -> EvalResult_sub(call.other, call.self, call.res_domain)
      [] call.f = "mul" -> EvalResult_mul(call.other, call.self, call.res_domain)

\* C21: with every Evals on the target T and every SubEvals a D8 vector of
\* length 8 |H|, add, sub and mul give Constant(x op y) for two Constants
\* and otherwise the Evals on T of length |T| whose entry i is L_i op R_i,
\* the left operand first; add and mul give the same with the operands
\* exchanged.
EvalResultEntrywise ==
    (/\ call.fn = "EvalResult"
     /\ OverD8(call.self, call.d1) /\ OverD8(call.other, call.d1)) =>
        /\ call.ret = Entrywise(call.f, call.self, call.other, call.res_domain)
        /\ call.f \in {"add", "mul"} => Swapped = call.ret

\* a SubEvals at the row Next has been subtracted from a Constant over D4
ConstantMinusSubEvals ==
    /\ call.fn = "EvalResult" /\ call.f = "sub"
    /\ call.self[1] = "Constant" /\ call.other[1] = "SubEvals"
    /\ call.other[3] = 1 /\ VLen(call.other[4]) = 8 * call.d1
    /\ call.res_domain[1] = D4 /\ call.d1 = 2
    /\ call.ret[1] = "Evals"
    /\ Swapped # call.ret

\* C22: for a SubEvals over a D8 vector of length 8 |H| the stride 8 / T is
\* exact and stride * i + shift is below the length at every index but the
\* last; it is the length only at the last index with T = D8 and shift 1,
\* where it is reduced to 0; so no operation reads out of range.
NoOutOfRangeRead ==
    (/\ call.fn = "EvalResult"
     /\ OverD8(call.self, call.d1) /\ OverD8(call.other, call.d1)) =>
        /\ call.ret[1] # "Panic"
        /\ \A x \in {call.self, call.other} :
            x[1] = "SubEvals" =>
                LET t == call.res_domain[1]
                    size == call.res_domain[2]
                    len == VLen(x[4])
                IN
                /\ x[2] % t = 0
                /\ \A i \in 0 .. (size - 1) :
                    LET raw == (x[2] \div t) * i + x[3] IN
                    IF i = size - 1 /\ t = D8 /\ x[3] = 1
                    THEN raw = len /\ raw % len = 0
                    ELSE raw < len

\* add has read a SubEvals at the row Next over D8: the last index wraps
AddWrapsAtLastIndex ==
    /\ call.fn = "EvalResult" /\ call.f = "add"
    /\ call.self[1] = "SubEvals" /\ call.self[3] = 1
    /\ VLen(call.self[4]) = 8 * call.d1
    /\ call.other[1] = "Evals"
    /\ call.res_domain[1] = D8
    /\ call.ret[1] = "Evals"
    /\ call.ret[3][call.res_domain[2] - 1]
         = FieldOp("add", call.self[4][0], call.other[3][call.res_domain[2] - 1])

\* C23: for two SubEvals the entry i of the result is
\* es1[(stride1 * i + s1) mod len(es1)] op es2[(stride2 * i + s2) mod len(es2)],
\* also when the two vectors have different lengths.
SubEvalsReadAtOwnIndex ==
    (/\ call.fn = "EvalResult"
     /\ call.self[1] = "SubEvals" /\ call.other[1] = "SubEvals") =>
        call.ret = Entrywise(call.f, call.self, call.other, call.res_domain)

\* what the code does: sub reads both operands so; add and mul do when both
\* vectors have the length 8 |H|
SubEvalsOfOneLength ==
    (/\ call.fn = "EvalResult"
     /\ call.self[1] = "SubEvals" /\ call.other[1] = "SubEvals"
     /\ \/ call.f = "sub"
        \/ VLen(call.self[4]) = 8 * call.d1 /\ VLen(call.other[4]) = 8 * call.d1) =>
        call.ret = Entrywise(call.f, call.self, call.other, call.res_domain)

\* mul of a vector of length 4 |H| with one of length 8 |H| has returned
\* other entries than those at each operand's own index
MulReducesBySelfLength ==
    /\ call.fn = "EvalResult" /\ call.f = "mul"
    /\ call.self[1] = "SubEvals" /\ call.other[1] = "SubEvals"
    /\ VLen(call.self[4]) = 4 * call.d1 /\ VLen(call.other[4]) = 8 * call.d1
    /\ call.res_domain[1] = D8
    /\ call.ret[1] = "Evals"
    /\ call.ret # Entrywise(call.f, call.self, call.other, call.res_domain)

-----------------------------------------------------------------------------
(* The degree estimate and the domain Expr::evaluations chooses.           *)

\* the degree of the polynomial e denotes when every column is a polynomial
\* of degree |H| - 1 and no leading term cancels: a product of polynomials
\* has the sum of their degrees
RECURSIVE GenericDegree(_, _)
GenericDegree(e, n) ==
    CASE e[1] \in {"Constant", "Alpha", "Beta", "Gamma", "JointCombiner"} -> 0
      [] e[1] = "ZkPolynomial" -> 3
      [] e[1] \in {"UnnormalizedLagrangeBasis", "Cell"} -> n - 1
      [] e[1] = "Mul" -> GenericDegree(e[2], n) + GenericDegree(e[3], n)
      [] e[1] \in {"Sub", "Add"} -> Max(GenericDegree(e[2], n), GenericDegree(e[3], n))

\* C24: the degree estimate of every expression is at least the degree of
\* the polynomial it denotes, and the vector evaluations returns has more
\* points than that degree.
DegreeIsUpperBound ==
    call.fn = "evaluations" =>
        /\ degree(expr, call.d1) >= GenericDegree(expr, call.d1)
        /\ call.ret[1] = "Ok" => VLen(call.ret[2]) > GenericDegree(expr, call.d1)

\* some product in the tree has a factor whose estimate is 0
RECURSIVE HasFactorOfDegreeZero(_, _)
HasFactorOfDegreeZero(e, n) ==
    /\ IsBinary(e)
    /\ \/ HasFactorOfDegreeZero(e[2], n)
       \/ HasFactorOfDegreeZero(e[3], n)
       \/ e[1] = "Mul" /\ 0 \in {degree(e[2], n), degree(e[3], n)}

\* what the code gives: the estimate is an upper bound for the expressions
\* in which no product has a factor of estimate 0
DegreeBoundsWithoutConstantFactors ==
    (call.fn = "evaluations" /\ ~HasFactorOfDegreeZero(expr, call.d1)) =>
        /\ degree(expr, call.d1) >= GenericDegree(expr, call.d1)
        /\ call.ret[1] = "Ok" => VLen(call.ret[2]) > GenericDegree(expr, call.d1)

\* 3 * (w0 * w0) over |H| = 2 has degree 2 and was evaluated on the two
\* points of D1
ConstantFactorHidesDegree ==
    /\ call.fn = "evaluations" /\ call.d1 = 2
    /\ expr = Mul(Constant(3), Mul(Cell(Variable(Witness(0), Curr)),
                                   Cell(Variable(Witness(0), Curr))))
    /\ degree(expr, call.d1) = 0
    /\ call.ret[1] = "Ok" /\ VLen(call.ret[2]) = 2

\* the smallest of D1, D4, D8 whose size is at least deg
SmallestDomain(deg, n) ==
    CHOOSE k \in {D1, D4, D8} :
        /\ k * n >= deg
        /\ \A j \in {D1, D4, D8} : j * n >= deg => k <= j

\* C25: evaluations returns a vector on the smallest of D1, D4, D8 whose
\* size is at least the degree estimate, whatever the kind of the bottom-up
\* result, and aborts without a vector when the estimate exceeds 8 |H|.
EvaluationsOnSmallestDomain ==
    call.fn = "evaluations" =>
        LET deg == degree(expr, call.d1) IN
        IF deg <= 8 * call.d1
        THEN /\ call.ret[1] = "Ok"
             /\ VLen(call.ret[2]) = SmallestDomain(deg, call.d1) * call.d1
        ELSE call.ret = <<"Panic", "constraint had degree > 8">>

\* what the code gives: the same, but that an expression with an
\* UnnormalizedLagrangeBasis node aborts in pows on D4 and D8, and on the
\* assertion of unnormalized_lagrange_evals when its index is not below |H|
EvaluationsOnSmallestDomainOrPows ==
    call.fn = "evaluations" =>
        LET deg == degree(expr, call.d1) IN
        IF deg <= 8 * call.d1
        THEN \/ /\ call.ret[1] = "Ok"
                /\ VLen(call.ret[2]) = SmallestDomain(deg, call.d1) * call.d1
             \/ /\ HasBasis(expr)
                /\ SmallestDomain(deg, call.d1) # D1
                /\ call.ret = <<"Panic", "index out of bounds">>
             \/ /\ UnnormalizedLagrangeBasis(1) \in Nodes(expr)
                /\ call.d1 = 1
                /\ call.ret = <<"Panic", "assertion failed: ii < n">>
        ELSE call.ret = <<"Panic", "constraint had degree > 8">>

\* a basis polynomial times a cell has estimate 4 over |H| = 2 and
\* evaluations returned no vector
BasisProductAborts ==
    /\ call.fn = "evaluations" /\ call.d1 = 2
    /\ expr = Mul(UnnormalizedLagrangeBasis(0), Cell(Variable(Z, Curr)))
    /\ degree(expr, call.d1) = 4
    /\ call.ret[1] = "Panic"

\* a product of estimate 81 over |H| = 2 was refused
DegreeTooLarge ==
    /\ call.fn = "evaluations" /\ call.d1 = 2
    /\ expr = Mul(Mul(ZkPolynomial, ZkPolynomial), Mul(ZkPolynomial, ZkPolynomial))
    /\ call.ret = <<"Panic", "constraint had degree > 8">>

-----------------------------------------------------------------------------
(* SpecGates: expressions over the selector of a gate kind, evaluated in   *)
(* environments that hold the gate kind and in environments that do not.   *)

GatePools ==
    { {Cell(Variable(Index(0), Curr)), Cell(Variable(Witness(0), Next_)), Constant(3)},
      {Cell(Variable(Index(0), Next_)), ZkPolynomial, UnnormalizedLagrangeBasis(0)} }

\* the expressions a op b, a op (b op c) and (a op b) op c over the leaves
\* of a pool, built with the overloaded operators
Expressions(leaves) ==
    LET ops == {"add", "sub", "mul"}
        one == {apply(f, a, b) : f \in ops, a \in leaves, b \in leaves}
    IN
    leaves \cup one
    \cup {apply(f, a, b) : f \in ops, a \in leaves, b \in one}
    \cup {apply(f, a, b) : f \in ops, a \in one, b \in leaves}

InitGates ==
    /\ pool \in GatePools
    /\ expr \in Expressions(pool)
    /\ call = NoCall
    /\ ProverIdle

SpecGates == InitGates /\ [][Evaluations]_vars

\* the selector cell of the gate kind 0 at one of the two rows
IsGateCell(e) == e[1] = "Cell" /\ e[2] = Index(0)

\* a product one of whose factors, at any depth, is the selector cell
RECURSIVE HasGateFactor(_)
HasGateFactor(e) ==
    \/ IsGateCell(e)
    \/ e[1] = "Mul" /\ (HasGateFactor(e[2]) \/ HasGateFactor(e[3]))

AllZero(v) == \A i \in DOMAIN v : v[i] = 0

EvalsCarryChosenDomain ==
    (call.fn = "evaluations" /\ degree(expr, call.d1) <= 8 * call.d1) =>
        LET env == env_of(call.d1, call.seed, call.present)
            d == SmallestDomain(degree(expr, call.d1), call.d1)
        IN
        /\ \A node \in Nodes(expr) :
            LET r == evaluations_(node, d, env) IN
            r[1] = "Evals" => (r[2] = d /\ VLen(r[3]) = d * call.d1)
        /\ call.ret \notin {<<"Panic", "assertion failed: d1 == d2">>,
                            <<"Panic", "assertion failed: domain == d">>}

\* two Evals have met in sub: the difference of a basis polynomial and the
\* sum of a basis polynomial and a cell, over D1
EvalsMeetEvals ==
    /\ call.fn = "evaluations" /\ call.d1 = 2
    /\ expr = Sub(UnnormalizedLagrangeBasis(0),
                  Add(UnnormalizedLagrangeBasis(0), Cell(Variable(Index(0), Next_))))
    /\ evaluations_(expr[2], D1, env_of(call.d1, call.seed, call.present))[1] = "Evals"
    /\ evaluations_(expr[3], D1, env_of(call.d1, call.seed, call.present))[1] = "Evals"
    /\ call.ret[1] = "Ok" /\ VLen(call.ret[2]) = call.d1

-----------------------------------------------------------------------------
(* SpecPows: calls of fn pows.                                             *)

MaxPowsLen == 8

InitPows == ExprIdle /\ ProverIdle

\* a call pows(x, n)
Pows ==
    /\ call = NoCall
    /\ \E x \in F, n \in 0 .. MaxPowsLen :
        call' = [fn |-> "pows", x |-> x, n |-> n, ret |-> pows(x, n)]
    /\ UNCHANGED <<pool, expr, pc, fq_sponge, fr_sponge, prover>>

SpecPows == InitPows /\ [][Pows]_vars

\* x^r by repeated multiplication
RECURSIVE Power(_, _)
Power(x, r) == IF r = 0 THEN 1 ELSE (x * Power(x, r - 1)) % P

\* C30: pows(x, n) returns for every n, without aborting, the list of the n
\* powers x^0, ..., x^(n-1); for n = k in {1, 4, 8} its entry r is x^r for
\* every r below k.
PowsReturnsPowers ==
    call.fn = "pows" =>
        /\ call.ret[1] = "Ok"
        /\ DOMAIN call.ret[2] = 0 .. (call.n - 1)
        /\ \A r \in 0 .. (call.n - 1) : call.ret[2][r] = Power(call.x, r)

\* what the code gives: the vector [1] for n = 0 and [1, x] for n = 1 and
\* n = 2, and an index out of bounds for every n >= 3
PowsOfTwoElements ==
    call.fn = "pows" =>
        CASE call.n = 0 -> call.ret = <<"Ok", [r \in {0} |-> 1]>>
          [] call.n \in {1, 2} ->
                call.ret = <<"Ok", [r \in {0, 1} |-> IF r = 0 THEN 1 ELSE call.x]>>
          [] call.n >= 3 -> call.ret = <<"Panic", "index out of bounds">>

\* pows(3, 4), as unnormalized_lagrange_evals calls it over D4, has aborted
PowsAborts ==
    /\ call.fn = "pows" /\ call.x = 3 /\ call.n = 4
    /\ call.ret[1] = "Panic"

-----------------------------------------------------------------------------
(* The Fq-sponge handed to the opening primitive.                          *)

\* create has returned a proof
ProofReturned == pc = "done" /\ prover.ret = Ok("ProverProof")

\* the Fq-sponge as it was right after the squeeze of zeta
SpongeAfterZeta ==
    SubSeq(fq_sponge, 1, CHOOSE i \in Positions(<<"challenge", "zeta">>) : TRUE)

\* C27: in both provers the Fq-sponge handed to the opening primitive is
\* the sponge as it was after the squeeze of zeta and before any further
\* absorb, squeeze or digest.
OpenedWithSpongeAfterZeta ==
    ProofReturned => prover.sponge = SpongeAfterZeta

\* C27, amended: that holds of the 15-wires prover; the 3-wire prover hands
\* over the sponge as it was after zeta, v and u were squeezed from it, in
\* that order, and before any further operation.
OpenedWithSpongeCopy ==
    ProofReturned =>
        /\ Cardinality(Positions(<<"challenge", "zeta">>)) = 1
        /\ IF prover.kind = "plonk-15-wires"
           THEN prover.sponge = SpongeAfterZeta
           ELSE prover.sponge
                    = SpongeAfterZeta \o <<<<"challenge", "v">>, <<"challenge", "u">>>>

\* the 3-wire prover has returned a proof opened over a sponge whose last
\* operation is the squeeze of u
OpenedAfterU ==
    /\ ProofReturned
    /\ prover.kind = "plonk"
    /\ prover.sponge[Len(prover.sponge)] = <<"challenge", "u">>
    /\ prover.sponge # SpongeAfterZeta

-----------------------------------------------------------------------------
(* SpecLinearizeOnce: one call of Expr::linearize on an expression of at   *)
(* most three leaves.                                                      *)

InitLinearizeOnce ==
    /\ pool \in LinearizePools
    /\ expr \in Expressions(pool)
    /\ call = NoCall
    /\ ProverIdle

SpecLinearizeOnce == InitLinearizeOnce /\ [][Linearize]_vars

\* the columns of the Cell nodes of an expression
CellColumns(e) == {x[2] : x \in {y \in Nodes(e) : y[1] = "Cell"}}

\* C28: whenever linearize(e, S) succeeds, no column appears twice in
\* index_terms, no column of S appears in index_terms, every Cell inside
\* constant_term and inside the coefficients of index_terms has its column
\* in S, and every variable accumulated into index_terms had the row Curr.
LinearizeSeparatesColumns ==
    (call.fn = "linearize" /\ IsOk(call.ret)) =>
        LET it == call.ret[2].index_terms
            S == call.evaluated
        IN
        /\ \A j, k \in 1 .. Len(it) : j # k => it[j][1] # it[k][1]
        /\ \A j \in 1 .. Len(it) : it[j][1] \notin S
        /\ CellColumns(call.ret[2].constant_term) \subseteq S
        /\ \A j \in 1 .. Len(it) : CellColumns(it[j][2]) \subseteq S
        /\ \A k \in MonomialKeys(expr) :
            Len(UnevaluatedOf(k, S)) = 1 =>
                /\ UnevaluatedOf(k, S)[1][2] = Curr
                /\ \E j \in 1 .. Len(it) : it[j][1] = UnevaluatedOf(k, S)[1][1]

\* w0 * w1 + w0 has been linearized with w0 evaluated: the index term of
\* w1 has the cell w0 in its coefficient, and so has the constant term
LinearizedOverEvaluatedCell ==
    /\ call.fn = "linearize" /\ IsOk(call.ret)
    /\ expr = Add(Mul(Cell(Variable(Witness(0), Curr)), Cell(Variable(Witness(1), Curr))),
                  Cell(Variable(Witness(0), Curr)))
    /\ call.evaluated = {Witness(0)}
    /\ Len(call.ret[2].index_terms) = 1
    /\ call.ret[2].index_terms[1][1] = Witness(1)
    /\ CellColumns(call.ret[2].index_terms[1][2]) = {Witness(0)}
    /\ CellColumns(call.ret[2].constant_term) = {Witness(0)}

====
